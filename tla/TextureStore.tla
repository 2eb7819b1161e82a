----------------------------- MODULE TextureStore -----------------------------
(***************************************************************************)
(* Texture rows, the profiles' bindings to them, the texture objects of    *)
(* the object storage and the two texture caches.  A request is the list   *)
(* of statements it still has to execute: todo[c] is a sequence of jobs,   *)
(* each one an await of the code, and the action of a job may put further  *)
(* jobs in front of the rest.  Requests of different clients interleave    *)
(* job by job; an error or a crash loses the rest of a list.               *)
(*                                                                         *)
(* A texture's object key is a function of its hash (object_storage_key),  *)
(* so blobs is a set of hashes.  Row and profile time stamps are only ever *)
(* compared for equality, with values some request or cache entry holds:   *)
(* they are numbers, and a write takes one that nobody holds.  The ids of  *)
(* deleted rows are reused once no request mentions them, which bounds the *)
(* rows alive at a time and not the number of requests.                    *)
(***************************************************************************)
EXTENDS Naturals, Sequences, FiniteSets, SequencesExt

CONSTANTS
    Users, Profiles,      \* accounts and their Minecraft profiles
    OwnerOf,              \* profile -> user
    Types,                \* texture types: "skin", "cape"
    Hashes,               \* contents (SHA-256 of the sanitised PNG)
    Clients,              \* requests in flight
    MaxTex,               \* bound: texture rows alive
    MaxStamp,             \* bound: time stamps in use at once
    Attempts,             \* WARDROBE_REPLACE_MAX_ATTEMPTS
    StoreLoads,           \* sets of operations issued together
    None

Models == {"default", "slim"}
Sources == {"local", "mojang"}
Ops == {"upload", "skin", "import", "replace", "metadata", "copy", "delete", "remove",
        "bind", "unbind", "presets", "dropOfficial", "purgeHash", "purgeProfile",
        "purgeUser", "maintain", "properties", "blob", "avatar", "source", "nickname", "account"}

Row == [owner : Users, type : Types, source : Sources, hash : Hashes, model : Models,
        wardrobe : BOOLEAN, ver : Nat]
\* What a failure leaves behind, beside the caches of a profile and the avatar of a user.
Leftovers == {"blob", "lookup", "asset", "picture", "sweep"}

ASSUME StoreAssumption ==
    /\ OwnerOf \in [Profiles -> Users]
    /\ MaxTex \in Nat \ {0} /\ MaxStamp \in Nat /\ Attempts \in Nat \ {0}
    /\ StoreLoads \subseteq [ops : SUBSET Ops, serial : BOOLEAN, faults : Nat, legacy : BOOLEAN,
                            slim : BOOLEAN, fresh : BOOLEAN, profiles : SUBSET Profiles,
                            users : SUBSET Users, hashes : SUBSET Hashes]
    /\ \A w \in StoreLoads : w.legacy =>
          "skin" \in Types /\ w.hashes # {} /\ \E p \in Profiles : OwnerOf[p] = CHOOSE u \in Users : TRUE
    /\ IsFiniteSet(Profiles) /\ IsFiniteSet(Types) /\ IsFiniteSet(Hashes)
    /\ Users \cap Profiles = {} /\ (Users \cup Profiles) \cap Leftovers = {}
    /\ None \notin Nat /\ None \notin Users /\ None \notin Profiles /\ None \notin Hashes /\ None \notin Row

VARIABLES
    rows,      \* minecraft_textures: id -> row or None
    bind,      \* minecraft_profile_textures: (profile, type) -> texture id or None
    preset,    \* minecraft_profile_texture_preferences: (profile, type) -> texture id or None
    stamp,     \* minecraft_profiles.updated_at
    blobs,     \* texture objects in the object storage
    lookup,    \* cache: hashes with a blob-lookup entry
    props,     \* cache: profile-properties entries
    todo,      \* what each request still has to do
    plan,      \* the workload of this behaviour
    faults,    \* failures still to come
    stale      \* what a failed request may have left stale

textureVars == <<rows, bind, preset, stamp, blobs, lookup, props, todo, plan, faults, stale>>
db == <<rows, bind, preset, stamp>>
cache == <<lookup, props>>
env == <<plan, faults, stale>>

Ids == 1..MaxTex
Slots == Profiles \X Types
Live == {t \in Ids : rows[t] # None}
Entry == [profile : Profiles, ver : Nat, val : SUBSET (Types \X Hashes \X Models)]

\* The value of the textures property: what the profile's bindings point at.
PropsOf(p) == {<<s[2], rows[bind[s]].hash, IF s[2] = "skin" THEN rows[bind[s]].model ELSE "default">> :
                 s \in {x \in Slots : x[1] = p /\ bind[x] # None}}

\* A texture bound before the wardrobe existed is a row that is no wardrobe item.
LegacyRow == [owner |-> CHOOSE u \in Users : TRUE, type |-> "skin", source |-> "local",
              hash |-> CHOOSE h \in plan.hashes : TRUE, model |-> "default", wardrobe |-> FALSE, ver |-> 0]

TextureInit ==
    /\ plan \in StoreLoads
    /\ rows = [t \in Ids |-> IF plan.legacy /\ t = 1 THEN LegacyRow ELSE None]
    /\ bind = [s \in Slots |-> IF plan.legacy /\ s[2] = "skin" /\ OwnerOf[s[1]] = LegacyRow.owner
                               THEN 1 ELSE None]
    /\ preset = [s \in Slots |-> None]
    /\ stamp = [p \in Profiles |-> 0]
    /\ blobs = IF plan.legacy THEN {LegacyRow.hash} ELSE {}
    /\ lookup = {} /\ props = {}
    /\ todo = [c \in Clients |-> <<>>]
    /\ faults = plan.faults /\ stale = {}

-----------------------------------------------------------------------------
(* The jobs of a request.                                                  *)

At(c, j) == todo[c] # <<>> /\ Head(todo[c]).j = j
Job(c) == Head(todo[c])
Then(c, s) == todo' = [todo EXCEPT ![c] = s \o Tail(@)]
Stop(c) == todo' = [todo EXCEPT ![c] = <<>>]       \* an error: the rest is not executed

\* Everything the other requests and the caches still refer to.
Mentioned(t) == \E c \in Clients : \E i \in DOMAIN todo[c] :
                   LET x == todo[c][i]
                   IN  \/ "t" \in DOMAIN x /\ x.t = t
                       \/ "prev" \in DOMAIN x /\ x.prev = t
HeldRowStamps == {rows[t].ver : t \in Live} \cup
                 UNION {{todo[c][i].snap.ver : i \in {k \in DOMAIN todo[c] :
                             "snap" \in DOMAIN todo[c][k] /\ todo[c][k].snap # None}} : c \in Clients}
HeldProfileStamps(p) == {stamp[p]} \cup {e.ver : e \in {x \in props : x.profile = p}} \cup
                 UNION {{todo[c][i].stamp : i \in {k \in DOMAIN todo[c] :
                             "stamp" \in DOMAIN todo[c][k]}} : c \in Clients}
FreshRowStamp == CHOOSE v \in 0..MaxStamp : v \notin HeldRowStamps
FreshProfileStamp(p) == CHOOSE v \in 0..MaxStamp : v \notin HeldProfileStamps(p)
\* What bounds the stamps: a write waits until one is free.
RowStampsLeft == ~ (0..MaxStamp \subseteq HeldRowStamps)
ProfileStampsLeft(p) == ~ (0..MaxStamp \subseteq HeldProfileStamps(p))
FreshIds == {t \in Ids \ Live : ~ Mentioned(t)}

\* find_wardrobe_by_fingerprint
Fingerprint(u, ty, src, h, m) ==
    {t \in Live : /\ rows[t].owner = u /\ rows[t].type = ty /\ rows[t].source = src
                  /\ rows[t].hash = h /\ rows[t].model = m /\ rows[t].wardrobe}
\* list_by_texture_id: the slots bound to a texture
BoundTo(t) == {s \in Slots : bind[s] = t}
\* count_by_storage_key
References(h) == {t \in Live : rows[t].hash = h}
\* Deleting a row cascades to the bindings and the presets that refer to it.
DeleteRow(t) == /\ rows' = [rows EXCEPT ![t] = None]
                /\ bind' = [s \in Slots |-> IF bind[s] = t THEN None ELSE bind[s]]
                /\ preset' = [s \in Slots |-> IF preset[s] = t THEN None ELSE preset[s]]
\* only skins have a model
ModelFor(ty, m) == IF ty = "skin" THEN m ELSE "default"

\* Mutant: the profile row is not touched.
RefreshNoTouch(p) == <<[j |-> "props", p |-> p]>>
\* invalidate_profile_texture_caches: drop the cached properties, then touch the row
Refresh(p) == <<[j |-> "props", p |-> p], [j |-> "touch", p |-> p]>>
RefreshAll(ps) ==
    LET q == SetToSeq(ps)
    IN  [i \in 1..(2 * Cardinality(ps)) |-> [j |-> IF i % 2 = 1 THEN "props" ELSE "touch", p |-> q[(i + 1) \div 2]]]
\* invalidate_texture_asset_caches
Forget(h) == <<[j |-> "lookup", h |-> h]>>
\* cleanup_texture_blob_if_unreferenced
CleanBlob(h) == <<[j |-> "blob", h |-> h]>>
\* cleanup_texture_asset_if_unreferenced skips the items of a wardrobe.
CleanAsset(t, row) == IF row.wardrobe THEN <<>> ELSE <<[j |-> "asset", t |-> t, snap |-> row]>>
ProfilesOf(ss) == {s[1] : s \in ss}

-----------------------------------------------------------------------------
(* Requests.                                                               *)

Start(c, op, s) ==
    /\ todo[c] = <<>> /\ op \in plan.ops
    /\ plan.serial => \A d \in Clients : todo[d] = <<>>
    /\ todo' = [todo EXCEPT ![c] = s]
    /\ UNCHANGED <<db, blobs, cache, env>>

\* What clients send: every model or the default one only; any content, or
\* only content that nobody has stored or is storing.
ModelsHere == IF plan.slim THEN Models ELSE {"default"}
InUse(h) == h \in blobs \/ \E c \in Clients : \E i \in DOMAIN todo[c] :
               "h" \in DOMAIN todo[c][i] /\ todo[c][i].h = h
SlotsHere == {s \in Slots : s[1] \in plan.profiles}
HashesHere == {h \in plan.hashes : plan.fresh => ~ InUse(h)}

\* A multipart upload into the wardrobe.
UploadWardrobeTexture(c) == \E u \in plan.users, ty \in Types, h \in HashesHere, m \in ModelsHere :
    Start(c, "upload", <<[j |-> "find", u |-> u, ty |-> ty, src |-> "local", h |-> h,
                          m |-> ModelFor(ty, m), p |-> None, mode |-> "wardrobe"]>>)
\* The launcher's upload for a profile.
UploadTexture(c) == \E p \in plan.profiles, ty \in Types, h \in HashesHere, m \in ModelsHere :
    Start(c, "skin", <<[j |-> "find", u |-> OwnerOf[p], ty |-> ty, src |-> "local", h |-> h,
                        m |-> ModelFor(ty, m), p |-> p, mode |-> "bind"]>>)
\* A refresh of the official textures keeps a local one; applying them replaces it.
Import(c, md) == \E p \in plan.profiles, ty \in Types, h \in HashesHere :
    Start(c, "import", <<[j |-> "find", u |-> OwnerOf[p], ty |-> ty, src |-> "mojang", h |-> h,
                          m |-> "default", p |-> p, mode |-> md]>>)
RefreshOfficial(c) == Import(c, "preserve")
ApplyOfficial(c) == Import(c, "apply")
ReplaceWardrobeTexture(c) == \E u \in plan.users, t \in Live, h \in HashesHere, m \in ModelsHere :
    Start(c, "replace", <<[j |-> "rread", u |-> u, t |-> t, h |-> h, m |-> m]>>)
UpdateWardrobeTexture(c) == \E u \in plan.users, t \in Live, m \in Models :
    Start(c, "metadata", <<[j |-> "mread", u |-> u, t |-> t, m |-> m]>>)
CopyPublicTexture(c) == \E u \in plan.users, t \in Live :
    Start(c, "copy", <<[j |-> "cread", u |-> u, t |-> t]>>)
DeleteWardrobeTexture(c) == \E u \in plan.users, t \in Live :
    Start(c, "delete", <<[j |-> "wlist", u |-> u, t |-> t]>>)
DeleteLibraryTexture(c) == \E t \in Live :
    Start(c, "remove", <<[j |-> "aread", t |-> t]>>)
BindProfileTexture(c) == \E s \in SlotsHere, t \in Live :
    Start(c, "bind", <<[j |-> "bread", s |-> s, t |-> t]>>)
\* The owner on the site, the launcher and an administrator unbind alike.
Unbind(c) == \E s \in SlotsHere :
    Start(c, "unbind", <<[j |-> "ufind", s |-> s, all |-> FALSE]>>)
UnbindProfileTexture(c) == Unbind(c)
DeleteTexture(c) == Unbind(c)
AdminDeleteTexture(c) == Unbind(c)
ApplyLocalPresets(c) == \E p \in plan.profiles :
    Start(c, "presets", <<[j |-> "preset", s |-> <<p, "skin">>], [j |-> "preset", s |-> <<p, "cape">>]>>)
DropOfficialTexture(c) == \E s \in SlotsHere :
    Start(c, "dropOfficial", <<[j |-> "ofind", s |-> s]>>)
DeleteTexturesByHash(c) == \E h \in plan.hashes :
    Start(c, "purgeHash", <<[j |-> "hlist", h |-> h], [j |-> "hdel", h |-> h]>>)
\* First step of the deletion of a profile, by its owner or an administrator.
PurgeProfile(c) == \E p \in plan.profiles :
    Start(c, "purgeProfile", <<[j |-> "plist", p |-> p]>>)
DeleteProfile(c) == PurgeProfile(c)
AdminDeleteProfile(c) == PurgeProfile(c)
DeleteUserTextures(c) == \E u \in plan.users :
    Start(c, "purgeUser", <<[j |-> "ulist", u |-> u]>>)
\* The maintenance task: register the bound textures, then delete orphan objects.
TextureCleanup(c) == Start(c, "maintain", <<[j |-> "glist"], [j |-> "klist"]>>)
\* A profile lookup with properties; the row is read before the cache.
ReadProperties(c) == \E p \in plan.profiles :
    /\ ~ \E e \in props : e.profile = p /\ e.ver = stamp[p]       \* a hit changes nothing
    /\ Start(c, "properties", <<[j |-> "pread", p |-> p, stamp |-> stamp[p]]>>)
ReadTexture(c) == \E h \in plan.hashes \ lookup :
    Start(c, "blob", <<[j |-> "bfind", h |-> h]>>)

-----------------------------------------------------------------------------
(* Storing a texture: reuse the row of the same fingerprint, or put the    *)
(* object and create a row; then bind it.                                  *)

AfterStore(x, t) ==
    IF x.mode = "wardrobe" THEN <<>>
    ELSE <<[j |-> "prev", s |-> <<x.p, x.ty>>, t |-> t, h |-> x.h, mode |-> x.mode]>>

FindReusable(c) ==
    /\ At(c, "find")
    /\ LET x == Job(c)
           found == Fingerprint(x.u, x.ty, x.src, x.h, x.m)
       IN  IF found # {} THEN \E t \in found : Then(c, AfterStore(x, t))
           ELSE Then(c, <<[x EXCEPT !.j = "put"]>>)
    /\ UNCHANGED <<db, blobs, cache, env>>
PutFile(c) ==
    /\ At(c, "put")
    /\ blobs' = blobs \cup {Job(c).h}
    /\ Then(c, <<[Job(c) EXCEPT !.j = "create"]>>)
    /\ UNCHANGED <<db, cache, env>>
CreateTexture(c) ==
    /\ At(c, "create")
    /\ \E t \in FreshIds :
          /\ rows' = [rows EXCEPT ![t] =
                [owner |-> Job(c).u, type |-> Job(c).ty, source |-> Job(c).src, hash |-> Job(c).h,
                 model |-> Job(c).m, wardrobe |-> TRUE, ver |-> 0]]
          /\ Then(c, AfterStore(Job(c), t))
    /\ UNCHANGED <<bind, preset, stamp, blobs, cache, env>>
\* The insert fails: the object is cleaned up unless another row uses it.
CreateFails(c) ==
    /\ At(c, "create") /\ faults > 0
    /\ faults' = faults - 1
    /\ todo' = [todo EXCEPT ![c] = CleanBlob(Job(c).h)]
    /\ UNCHANGED <<db, blobs, cache, plan, stale>>

\* An official texture replaces nothing, or an official one, unless it is applied.
ShouldBind(mode, s) == mode # "preserve" \/ bind[s] = None \/ rows[bind[s]].source = "mojang"
FindPrevious(c) ==
    /\ At(c, "prev")
    /\ LET x == Job(c) IN
          IF ~ ShouldBind(x.mode, x.s) THEN Then(c, Forget(x.h))
          ELSE Then(c, <<[j |-> "upsert", s |-> x.s, t |-> x.t, mode |-> x.mode, prev |-> bind[x.s],
                          snap |-> IF bind[x.s] = None THEN None ELSE rows[bind[x.s]]]>>)
    /\ UNCHANGED <<db, blobs, cache, env>>

\* What follows a successful upsert; official textures are no presets.
AfterUpsert(x) ==
    (IF x.mode = "bind" THEN <<[j |-> "remember", s |-> x.s, t |-> x.t]>> ELSE <<>>)
    \o (IF x.prev # None /\ x.prev # x.t THEN CleanAsset(x.prev, x.snap) ELSE <<>>)
    \o Refresh(x.s[1]) \o Forget(rows[x.t].hash)
    \o (IF x.prev # None THEN Forget(x.snap.hash) ELSE <<>>)
UpsertBinding(c) ==
    /\ At(c, "upsert")
    /\ IF rows[Job(c).t] = None THEN Stop(c) /\ bind' = bind         \* the foreign key
       ELSE /\ bind' = [bind EXCEPT ![Job(c).s] = Job(c).t]
            /\ Then(c, AfterUpsert(Job(c)))
    /\ UNCHANGED <<rows, preset, stamp, blobs, cache, env>>
RememberPreset(c) ==
    /\ At(c, "remember")
    /\ IF rows[Job(c).t] = None THEN Stop(c) /\ preset' = preset
       ELSE /\ Then(c, <<>>)
            /\ preset' = IF rows[Job(c).t].source = "local" /\ rows[Job(c).t].wardrobe
                         THEN [preset EXCEPT ![Job(c).s] = Job(c).t] ELSE preset
    /\ UNCHANGED <<rows, bind, stamp, blobs, cache, env>>

BindRead(c) ==
    /\ At(c, "bread")
    /\ LET x == Job(c) IN
          IF rows[x.t] = None \/ rows[x.t].owner # OwnerOf[x.s[1]] \/ rows[x.t].type # x.s[2]
          THEN Stop(c)
          ELSE Then(c, <<[j |-> "prev", s |-> x.s, t |-> x.t, h |-> rows[x.t].hash, mode |-> "bind"]>>)
    /\ UNCHANGED <<db, blobs, cache, env>>
ApplyPreset(c) ==
    /\ At(c, "preset")
    /\ LET x == Job(c)
           t == IF x.s \in Slots THEN preset[x.s] ELSE None
       IN  IF t = None \/ rows[t].source # "local" \/ ~ rows[t].wardrobe THEN Then(c, <<>>)
           ELSE Then(c, <<[j |-> "bread", s |-> x.s, t |-> t]>>)
    /\ UNCHANGED <<db, blobs, cache, env>>

-----------------------------------------------------------------------------
(* Replacing the content of a wardrobe item: compare and set on updated_at. *)

ReplaceRead(c) ==
    /\ At(c, "rread")
    /\ LET x == Job(c)
           row == rows[x.t]
           m == ModelFor(row.type, x.m)
       IN  IF row = None \/ row.owner # x.u \/ ~ row.wardrobe THEN Stop(c)
           ELSE IF row.hash = x.h /\ row.model = m THEN Stop(c)
           ELSE Then(c, <<[j |-> IF row.hash # x.h THEN "rput" ELSE "rlist", t |-> x.t, h |-> x.h,
                           m |-> m, snap |-> row, n |-> 1]>>)
    /\ UNCHANGED <<db, blobs, cache, env>>
ReplacePut(c) ==
    /\ At(c, "rput")
    /\ blobs' = blobs \cup {Job(c).h}
    /\ Then(c, <<[Job(c) EXCEPT !.j = "rlist"]>>)
    /\ UNCHANGED <<db, cache, env>>
ReplaceList(c) ==
    /\ At(c, "rlist")
    /\ Then(c, <<[j |-> "rcas", t |-> Job(c).t, h |-> Job(c).h, m |-> Job(c).m, snap |-> Job(c).snap,
                  n |-> Job(c).n, ps |-> ProfilesOf(BoundTo(Job(c).t))]>>)
    /\ UNCHANGED <<db, blobs, cache, env>>
AfterReplace(x) == RefreshAll(x.ps) \o Forget(x.snap.hash) \o Forget(x.h)
                   \o (IF x.snap.hash # x.h THEN CleanBlob(x.snap.hash) ELSE <<>>)
ReplaceCas(c) ==
    /\ At(c, "rcas")
    /\ LET x == Job(c) IN
          IF rows[x.t] # None /\ rows[x.t].ver = x.snap.ver
          THEN /\ RowStampsLeft
               /\ rows' = [rows EXCEPT ![x.t].source = "local", ![x.t].hash = x.h, ![x.t].model = x.m,
                                       ![x.t].ver = FreshRowStamp]
               /\ Then(c, AfterReplace(x))
          ELSE /\ Then(c, <<[x EXCEPT !.j = "rreread"]>>)
               /\ rows' = rows
    /\ UNCHANGED <<bind, preset, stamp, blobs, cache, env>>
\* Mutant: the retry keeps the snapshot of the first attempt's object.
ReplaceRereadKeepsOld(c) ==
    /\ At(c, "rreread")
    /\ LET x == Job(c)
           row == rows[x.t]
       IN  IF row = None THEN Then(c, CleanBlob(x.h))
           ELSE IF row.hash = x.h /\ row.model = x.m THEN Then(c, AfterReplace(x))
           ELSE IF x.n >= Attempts THEN Then(c, CleanBlob(x.h))
           ELSE Then(c, <<[x EXCEPT !.j = "rcas", !.snap.ver = row.ver, !.n = @ + 1]>>)
    /\ UNCHANGED <<db, blobs, cache, env>>
ReplaceReread(c) ==
    /\ At(c, "rreread")
    /\ LET x == Job(c)
           row == rows[x.t]
       IN  IF row = None THEN Then(c, CleanBlob(x.h))
           ELSE IF row.hash = x.h /\ row.model = x.m THEN Then(c, AfterReplace(x))
           ELSE IF x.n >= Attempts THEN Then(c, CleanBlob(x.h))
           ELSE Then(c, <<[x EXCEPT !.j = "rcas", !.snap = row, !.n = @ + 1]>>)
    /\ UNCHANGED <<db, blobs, cache, env>>

(* Metadata: read, update by id, and refresh the bound profiles when the   *)
(* model changed.                                                          *)
MetadataRead(c) ==
    /\ At(c, "mread")
    /\ LET x == Job(c)
           row == rows[x.t]
       IN  IF row = None \/ row.owner # x.u \/ ~ row.wardrobe THEN Stop(c)
           ELSE Then(c, <<[j |-> "mwrite", t |-> x.t, m |-> ModelFor(row.type, x.m), snap |-> row]>>)
    /\ UNCHANGED <<db, blobs, cache, env>>
MetadataWrite(c) ==
    /\ At(c, "mwrite")
    /\ LET x == Job(c) IN
          IF rows[x.t] = None THEN Stop(c) /\ rows' = rows
          ELSE /\ RowStampsLeft
               /\ rows' = [rows EXCEPT ![x.t].model = x.m, ![x.t].ver = FreshRowStamp]
               /\ Then(c, IF x.m # x.snap.model THEN <<[j |-> "mlist", t |-> x.t]>> ELSE <<>>)
    /\ UNCHANGED <<bind, preset, stamp, blobs, cache, env>>
MetadataList(c) ==
    /\ At(c, "mlist")
    /\ Then(c, RefreshAll(ProfilesOf(BoundTo(Job(c).t))))
    /\ UNCHANGED <<db, blobs, cache, env>>

(* A copy of a library texture shares its object and puts nothing.  Which  *)
(* items are published is TextureLibrary's: any wardrobe item may be.      *)
CopyRead(c) ==
    /\ At(c, "cread")
    /\ LET x == Job(c) IN
          IF rows[x.t] = None \/ ~ rows[x.t].wardrobe THEN Stop(c)
          ELSE Then(c, <<[j |-> "ccheck", u |-> x.u, t |-> x.t, snap |-> rows[x.t]]>>)
    /\ UNCHANGED <<db, blobs, cache, env>>
CopyCheck(c) ==
    /\ At(c, "ccheck")
    /\ LET x == Job(c) IN
          IF Fingerprint(x.u, x.snap.type, "local", x.snap.hash, x.snap.model) # {} THEN Stop(c)
          ELSE Then(c, <<[x EXCEPT !.j = "ccreate"]>>)
    /\ UNCHANGED <<db, blobs, cache, env>>
CopyCreate(c) ==
    /\ At(c, "ccreate")
    /\ \E t \in FreshIds :
          rows' = [rows EXCEPT ![t] = [Job(c).snap EXCEPT !.owner = Job(c).u, !.source = "local", !.ver = 0]]
    /\ Then(c, <<>>)
    /\ UNCHANGED <<bind, preset, stamp, blobs, cache, env>>

-----------------------------------------------------------------------------
(* Deleting.                                                               *)

\* The tail of both deletions of an item; the row was read before.
AfterDelete(row, ps) == CleanBlob(row.hash) \o RefreshAll(ps) \o Forget(row.hash)

WardrobeList(c) ==
    /\ At(c, "wlist")
    /\ Then(c, <<[j |-> "wfind", u |-> Job(c).u, t |-> Job(c).t, ps |-> ProfilesOf(BoundTo(Job(c).t))]>>)
    /\ UNCHANGED <<db, blobs, cache, env>>
\* NotFound ends a single deletion, and a purge goes on with the next texture.
WardrobeFind(c) ==
    /\ At(c, "wfind")
    /\ LET x == Job(c)
           row == rows[x.t]
       IN  IF row = None \/ (x.u # None /\ row.owner # x.u) \/ (x.u = None /\ ~ row.wardrobe)
           THEN Then(c, <<>>)
           ELSE Then(c, <<[j |-> "wdel", t |-> x.t, ps |-> x.ps, snap |-> row]>>)
    /\ UNCHANGED <<db, blobs, cache, env>>
WardrobeDelete(c) ==
    /\ At(c, "wdel")
    /\ DeleteRow(Job(c).t)
    /\ Then(c, AfterDelete(Job(c).snap, Job(c).ps))
    /\ UNCHANGED <<stamp, blobs, cache, env>>
AdminRead(c) ==
    /\ At(c, "aread")
    /\ IF rows[Job(c).t] = None \/ ~ rows[Job(c).t].wardrobe THEN Stop(c)
       ELSE Then(c, <<[j |-> "aunbind", t |-> Job(c).t]>>)
    /\ UNCHANGED <<db, blobs, cache, env>>
AdminUnbind(c) ==
    /\ At(c, "aunbind")
    /\ bind' = [s \in Slots |-> IF bind[s] = Job(c).t THEN None ELSE bind[s]]
    /\ Then(c, <<[j |-> "wfind", u |-> None, t |-> Job(c).t, ps |-> ProfilesOf(BoundTo(Job(c).t))]>>)
    /\ UNCHANGED <<rows, preset, stamp, blobs, cache, env>>
UserList(c) ==
    /\ At(c, "ulist")
    /\ LET own == {t \in Live : rows[t].owner = Job(c).u /\ rows[t].wardrobe}
       IN  Then(c, SetToSeq({[j |-> "wlist", u |-> Job(c).u, t |-> t] : t \in own}))
    /\ UNCHANGED <<db, blobs, cache, env>>

\* A purge refreshes its profile once, at the end, if it deleted a binding.
Due(q, p) == [i \in DOMAIN q |-> IF q[i].j = "purged" /\ q[i].p = p THEN [q[i] EXCEPT !.due = TRUE] ELSE q[i]]
\* delete_for_profile: find the binding with its texture, delete it by id.
UnbindFind(c) ==
    /\ At(c, "ufind")
    /\ LET x == Job(c) IN
          IF bind[x.s] = None THEN Then(c, <<>>)
          ELSE Then(c, <<[j |-> "udel", s |-> x.s, all |-> x.all, t |-> bind[x.s], snap |-> rows[bind[x.s]]]>>)
    /\ UNCHANGED <<db, blobs, cache, env>>
UnbindDelete(c) ==
    /\ At(c, "udel")
    /\ LET x == Job(c) IN
          /\ bind' = [bind EXCEPT ![x.s] = None]
          /\ todo' = [todo EXCEPT ![c] =
                CleanAsset(x.t, x.snap) \o Forget(x.snap.hash)
                \o (IF x.all THEN Due(Tail(@), x.s[1]) ELSE Refresh(x.s[1]) \o Tail(@))]
    /\ UNCHANGED <<rows, preset, stamp, blobs, cache, env>>
OfficialFind(c) ==
    /\ At(c, "ofind")
    /\ LET s == Job(c).s IN
          IF bind[s] = None \/ rows[bind[s]].source # "mojang" THEN Then(c, <<>>)
          ELSE Then(c, <<[j |-> "ufind", s |-> s, all |-> FALSE]>>)
    /\ UNCHANGED <<db, blobs, cache, env>>
ProfileList(c) ==
    /\ At(c, "plist")
    /\ Then(c, SetToSeq({[j |-> "ufind", s |-> s, all |-> TRUE] :
                           s \in {x \in Slots : x[1] = Job(c).p /\ bind[x] # None}})
                \o <<[j |-> "purged", p |-> Job(c).p, due |-> FALSE]>>)
    /\ UNCHANGED <<db, blobs, cache, env>>
ProfileEnd(c) ==
    /\ At(c, "purged")
    /\ Then(c, IF Job(c).due THEN Refresh(Job(c).p) ELSE <<>>)
    /\ UNCHANGED <<db, blobs, cache, env>>
HashList(c) ==
    /\ At(c, "hlist")
    /\ Then(c, SetToSeq({[j |-> "ufind", s |-> s, all |-> FALSE] :
                           s \in {x \in Slots : bind[x] # None /\ rows[bind[x]].hash = Job(c).h}}))
    /\ UNCHANGED <<db, blobs, cache, env>>
HashDelete(c) ==
    /\ At(c, "hdel")
    /\ LET gone == References(Job(c).h) IN
          /\ rows' = [t \in Ids |-> IF t \in gone THEN None ELSE rows[t]]
          /\ bind' = [s \in Slots |-> IF bind[s] \in gone THEN None ELSE bind[s]]
          /\ preset' = [s \in Slots |-> IF preset[s] \in gone THEN None ELSE preset[s]]
          /\ Then(c, IF gone = {} THEN <<>> ELSE CleanBlob(Job(c).h) \o Forget(Job(c).h))
    /\ UNCHANGED <<stamp, blobs, cache, env>>

-----------------------------------------------------------------------------
(* Maintenance.                                                            *)

RegisterList(c) ==
    /\ At(c, "glist")
    /\ Then(c, SetToSeq({[j |-> "gfind", s |-> s, t |-> bind[s], snap |-> rows[bind[s]]] :
                           s \in {x \in Slots : bind[x] # None /\ ~ rows[bind[x]].wardrobe}}))
    /\ UNCHANGED <<db, blobs, cache, env>>
\* The binding and its texture are the ones listed at the start of the task.
RegisterFind(c) ==
    /\ At(c, "gfind")
    /\ LET x == Job(c)
           found == Fingerprint(x.snap.owner, x.snap.type, x.snap.source, x.snap.hash, x.snap.model)
       IN  IF found = {} THEN Then(c, <<[x EXCEPT !.j = "gmark"]>>)
           ELSE \E e \in found :
                  Then(c, <<[j |-> "gbind", s |-> x.s, t |-> e, prev |-> x.t, snap |-> x.snap]>>)
    /\ UNCHANGED <<db, blobs, cache, env>>
RegisterMark(c) ==
    /\ At(c, "gmark")
    /\ IF rows[Job(c).t] = None THEN Stop(c) /\ rows' = rows
       ELSE /\ RowStampsLeft
            /\ rows' = [rows EXCEPT ![Job(c).t].wardrobe = TRUE, ![Job(c).t].ver = FreshRowStamp]
            /\ Then(c, Refresh(Job(c).s[1]))
    /\ UNCHANGED <<bind, preset, stamp, blobs, cache, env>>
RegisterBind(c) ==
    /\ At(c, "gbind")
    /\ LET x == Job(c) IN
          IF rows[x.t] = None THEN Stop(c) /\ bind' = bind
          ELSE /\ bind' = [bind EXCEPT ![x.s] = x.t]
               /\ Then(c, Refresh(x.s[1]) \o Forget(rows[x.t].hash) \o Forget(x.snap.hash)
                          \o <<[j |-> "gdel", t |-> x.prev]>>)
    /\ UNCHANGED <<rows, preset, stamp, blobs, cache, env>>
RegisterDelete(c) ==
    /\ At(c, "gdel")
    /\ IF rows[Job(c).t] = None THEN Then(c, <<>>) /\ UNCHANGED <<rows, bind, preset>>
       ELSE /\ DeleteRow(Job(c).t)
            /\ Then(c, CleanBlob(rows[Job(c).t].hash) \o Forget(rows[Job(c).t].hash))
    /\ UNCHANGED <<stamp, blobs, cache, env>>
OrphanList(c) ==
    /\ At(c, "klist")
    /\ Then(c, SetToSeq({[j |-> "blob", h |-> h] : h \in blobs}) \o <<[j |-> "kend"]>>)
    /\ stale' = stale \ {"sweep"}
    /\ UNCHANGED <<db, blobs, cache, plan, faults>>
OrphanEnd(c) ==
    /\ At(c, "kend")
    /\ Then(c, <<>>)
    /\ stale' = IF "sweep" \in stale THEN stale ELSE stale \ {"blob"}
    /\ UNCHANGED <<db, blobs, cache, plan, faults>>

-----------------------------------------------------------------------------
(* The common jobs.                                                        *)

CountAsset(c) ==
    /\ At(c, "asset")
    /\ Then(c, IF BoundTo(Job(c).t) # {} THEN <<>> ELSE <<[Job(c) EXCEPT !.j = "assetdel"]>>)
    /\ UNCHANGED <<db, blobs, cache, env>>
DeleteAsset(c) ==
    /\ At(c, "assetdel")
    /\ IF rows[Job(c).t] = None THEN UNCHANGED <<rows, bind, preset>> ELSE DeleteRow(Job(c).t)
    /\ Then(c, CleanBlob(Job(c).snap.hash))
    /\ UNCHANGED <<stamp, blobs, cache, env>>
\* Mutant: the references are not counted.
CountBlobUncounted(c) ==
    /\ At(c, "blob")
    /\ Then(c, <<[j |-> "unlink", h |-> Job(c).h]>>)
    /\ UNCHANGED <<db, blobs, cache, env>>
CountBlob(c) ==
    /\ At(c, "blob")
    /\ Then(c, IF References(Job(c).h) # {} THEN <<>> ELSE <<[j |-> "unlink", h |-> Job(c).h]>>)
    /\ UNCHANGED <<db, blobs, cache, env>>
DeleteBlob(c) ==
    /\ At(c, "unlink")
    /\ blobs' = blobs \ {Job(c).h}
    /\ Then(c, <<>>)
    /\ UNCHANGED <<db, cache, env>>
\* The storage refuses: the failure is logged and the object stays.
DeleteBlobFails(c) ==
    /\ At(c, "unlink") /\ faults > 0
    /\ faults' = faults - 1 /\ stale' = stale \cup {"blob", "sweep"}
    /\ Then(c, <<>>)
    /\ UNCHANGED <<db, blobs, cache, plan>>
InvalidateProperties(c) ==
    /\ At(c, "props")
    /\ props' = {e \in props : e.profile # Job(c).p}
    /\ Then(c, <<>>)
    /\ UNCHANGED <<db, blobs, lookup, env>>
TouchProfile(c) ==
    /\ At(c, "touch") /\ ProfileStampsLeft(Job(c).p)
    /\ stamp' = [stamp EXCEPT ![Job(c).p] = FreshProfileStamp(Job(c).p)]
    /\ Then(c, <<>>)
    /\ UNCHANGED <<rows, bind, preset, blobs, cache, env>>
InvalidateLookup(c) ==
    /\ At(c, "lookup")
    /\ lookup' = lookup \ {Job(c).h}
    /\ Then(c, <<>>)
    /\ UNCHANGED <<db, blobs, props, env>>

\* Readers: build the value from the bindings, then cache it under the stamp
\* of the profile row that was read first.
PropertiesRead(c) ==
    /\ At(c, "pread")
    /\ Then(c, <<[j |-> "pset", p |-> Job(c).p, stamp |-> Job(c).stamp, val |-> PropsOf(Job(c).p)]>>)
    /\ UNCHANGED <<db, blobs, cache, env>>
PropertiesSet(c) ==
    /\ At(c, "pset")
    /\ LET x == Job(c) IN
          props' = {e \in props : e.profile # x.p \/ e.ver # x.stamp}
                     \cup {[profile |-> x.p, ver |-> x.stamp, val |-> x.val]}
    /\ Then(c, <<>>)
    /\ UNCHANGED <<db, blobs, lookup, env>>
BlobFind(c) ==
    /\ At(c, "bfind")
    /\ Then(c, IF References(Job(c).h) = {} THEN <<>> ELSE <<[j |-> "bset", h |-> Job(c).h]>>)
    /\ UNCHANGED <<db, blobs, cache, env>>
BlobSet(c) ==
    /\ At(c, "bset")
    /\ lookup' = lookup \cup {Job(c).h}
    /\ Then(c, <<>>)
    /\ UNCHANGED <<db, blobs, props, env>>

\* Time to live of the cache entries.
ExpireProperties(p) ==
    /\ \E e \in props : e.profile = p
    /\ props' = {e \in props : e.profile # p} /\ stale' = stale \ {p}
    /\ UNCHANGED <<db, blobs, lookup, todo, plan, faults>>
ExpireLookup ==
    /\ lookup # {}
    /\ lookup' = {} /\ stale' = stale \ {"lookup"}
    /\ UNCHANGED <<db, blobs, props, todo, plan, faults>>
\* Accounts whose deletion is broken off.
Unfinished(c) == {todo[c][i].u : i \in {k \in DOMAIN todo[c] : todo[c][k].j = "deleted"}}
\* A failing statement, a dropped connection or a crash ends the request here.
Lose(c) ==
    /\ todo[c] # <<>> /\ faults > 0
    /\ faults' = faults - 1
    /\ stale' = stale \cup Profiles \cup Leftovers \cup Unfinished(c)
    /\ Stop(c)
    /\ UNCHANGED <<db, blobs, cache, plan>>

Request(c) ==
    \/ UploadWardrobeTexture(c) \/ UploadTexture(c) \/ RefreshOfficial(c) \/ ApplyOfficial(c)
    \/ ReplaceWardrobeTexture(c)
    \/ UpdateWardrobeTexture(c) \/ CopyPublicTexture(c) \/ DeleteWardrobeTexture(c)
    \/ DeleteLibraryTexture(c) \/ BindProfileTexture(c) \/ UnbindProfileTexture(c) \/ DeleteTexture(c)
    \/ AdminDeleteTexture(c)
    \/ ApplyLocalPresets(c) \/ DropOfficialTexture(c) \/ DeleteTexturesByHash(c)
    \/ DeleteProfile(c) \/ AdminDeleteProfile(c) \/ DeleteUserTextures(c) \/ TextureCleanup(c)
    \/ ReadProperties(c) \/ ReadTexture(c)
Work(c) ==
    \/ FindReusable(c) \/ PutFile(c) \/ CreateTexture(c) \/ FindPrevious(c) \/ UpsertBinding(c)
    \/ RememberPreset(c) \/ BindRead(c) \/ ApplyPreset(c) \/ ReplaceRead(c) \/ ReplacePut(c)
    \/ ReplaceList(c) \/ ReplaceCas(c) \/ ReplaceReread(c) \/ MetadataRead(c) \/ MetadataWrite(c)
    \/ MetadataList(c) \/ CopyRead(c) \/ CopyCheck(c) \/ CopyCreate(c) \/ WardrobeList(c)
    \/ WardrobeFind(c) \/ WardrobeDelete(c) \/ AdminRead(c) \/ AdminUnbind(c) \/ UserList(c)
    \/ UnbindFind(c) \/ UnbindDelete(c) \/ OfficialFind(c) \/ ProfileList(c) \/ ProfileEnd(c) \/ HashList(c)
    \/ HashDelete(c) \/ RegisterList(c) \/ RegisterFind(c) \/ RegisterMark(c) \/ RegisterBind(c)
    \/ RegisterDelete(c) \/ OrphanList(c) \/ OrphanEnd(c) \/ CountAsset(c) \/ DeleteAsset(c)
    \/ CountBlob(c) \/ DeleteBlob(c) \/ InvalidateProperties(c) \/ TouchProfile(c)
    \/ InvalidateLookup(c) \/ PropertiesRead(c) \/ PropertiesSet(c) \/ BlobFind(c) \/ BlobSet(c)
TextureNext ==
    \/ \E c \in Clients : Request(c) \/ Work(c) \/ CreateFails(c) \/ DeleteBlobFails(c) \/ Lose(c)
    \/ \E p \in Profiles : ExpireProperties(p)
    \/ ExpireLookup

TextureSpec == TextureInit /\ [][TextureNext]_textureVars

-----------------------------------------------------------------------------
(* Properties.                                                             *)

(* Types of the tables and the caches.                                     *)
TexturesTyped ==
    /\ rows \in [Ids -> Row \cup {None}] /\ bind \in [Slots -> Ids \cup {None}]
    /\ preset \in [Slots -> Ids \cup {None}] /\ stamp \in [Profiles -> 0..MaxStamp]
    /\ blobs \subseteq Hashes /\ lookup \subseteq Hashes /\ props \subseteq Entry
    /\ plan \in StoreLoads /\ faults \in Nat
    /\ stale \subseteq Profiles \cup Users \cup Leftovers

AtRest == \A c \in Clients : todo[c] = <<>>

(* No texture row ever points at an object that has been deleted, whatever *)
(* mix of uploads, copies, replacements, deletions and failures precedes:  *)
(* cleanup_texture_blob_if_unreferenced deletes an object only when no row *)
(* shares it.                                                              *)
RowHasBlob == \A t \in Live : rows[t].hash \in blobs

(* When all requests have finished and none failed since the last          *)
(* maintenance, every stored object belongs to a row: deletions,           *)
(* replacements and duplicates leave no orphan object behind, two          *)
(* concurrent replacements included (replace_wardrobe_texture_content).    *)
NoOrphanBlob == AtRest /\ "blob" \notin stale => \A h \in blobs : References(h) # {}

(* A texture that belongs to no wardrobe disappears with its last binding  *)
(* (cleanup_texture_asset_if_unreferenced).                                *)
NoStrayAsset == AtRest /\ "asset" \notin stale =>
                   \A t \in Live : rows[t].wardrobe \/ BoundTo(t) # {}

(* A cached blob lookup leads to an object (invalidate_texture_asset_caches *)
(* is called on every path that deletes one).                              *)
LookupHasBlob == AtRest /\ "lookup" \notin stale => lookup \subseteq blobs

(* The properties cached under the profile's current time stamp are those  *)
(* of its current bindings: the touch after the invalidation retires what  *)
(* a slow reader cached in between (invalidate_profile_texture_caches).    *)
PropertiesFresh == AtRest => \A e \in props :
                      e.ver = stamp[e.profile] /\ e.profile \notin stale => e.val = PropsOf(e.profile)

(* The tables agree with the object store at every step, between the put   *)
(* and the insert of an upload and between count and delete of a clean-up. *)
StoreConsistent == TexturesTyped /\ RowHasBlob

(* Once the requests have finished, none of them failing since the last    *)
(* maintenance, nothing is left over: no object without a row, no texture  *)
(* without a use, no cached lookup of a deleted object.                    *)
NothingLeftOver == NoOrphanBlob /\ NoStrayAsset /\ LookupHasBlob
==============================================================================
