------------------------------- MODULE Avatars --------------------------------
(***************************************************************************)
(* The users' public profiles and their avatars, beside the textures in    *)
(* the same object storage.  An upload puts two pictures under the next    *)
(* version, writes the profile row and deletes the pictures of the row it  *)
(* had read.  Requests are lists of statements as in TextureStore.         *)
(*                                                                         *)
(* avatar_key is the prefix of the row's own version while the source is   *)
(* an upload and empty otherwise, so it is not kept.                       *)
(***************************************************************************)
EXTENDS TextureStore

CONSTANT MaxVersion   \* bound: avatar_version

ASSUME AvatarAssumption == MaxVersion \in Nat

VARIABLES
    face,      \* user_profiles: user -> row or None
    pictures,  \* avatar objects: <<user, version, size>>
    gone       \* users that were deleted

avatars == <<face, pictures, gone>>
textures == <<db, blobs, cache>>
storeVars == <<textureVars, avatars>>

AvatarSource == {"none", "gravatar", "upload"}
Sizes == <<"small", "large">>     \* AVATAR_SIZE_SM, AVATAR_SIZE_LG
Face == [source : AvatarSource, ver : 0..MaxVersion]

StoreInit == TextureInit /\ face = [u \in Users |-> None] /\ pictures = {} /\ gone = {}

-----------------------------------------------------------------------------
(* Requests.                                                               *)

UploadAvatar(c) == \E u \in plan.users : Start(c, "avatar", <<[j |-> "face", u |-> u]>>)
\* The upload source is refused here.
PutAvatarSource(c) == \E u \in plan.users, s \in AvatarSource \ {"upload"} :
    Start(c, "source", <<[j |-> "source", u |-> u, source |-> s]>>)
PatchProfile(c) == \E u \in plan.users : Start(c, "nickname", <<[j |-> "nickname", u |-> u]>>)
\* An administrator deletes a user; the tokens and sessions are those of YggToken and AuthSession.
DeleteUser(c) == \E u \in plan.users \ gone : Start(c, "account", <<[j |-> "leave", u |-> u]>>)

-----------------------------------------------------------------------------
(* Statements.                                                             *)

Each(j, u, v) == [i \in 1..Len(Sizes) |-> [j |-> j, u |-> u, v |-> v, size |-> Sizes[i]]]
\* delete_avatar_variant_objects
DropPictures(u, v) == Each("drop", u, v)
\* delete_upload_objects
DropUpload(u, row) == IF row # None /\ row.source = "upload" THEN DropPictures(u, row.ver) ELSE <<>>
NextVersion(row) == IF row = None THEN 1 ELSE row.ver + 1
\* user_profile_repo: the insert meets the primary key and the user, the update a row that is still there
Writable(u, row) == IF row = None THEN face[u] = None /\ u \notin gone ELSE face[u] # None

ReadFace(c) ==
    /\ At(c, "face")
    /\ LET u == Job(c).u
           v == NextVersion(face[u])
       IN  /\ v <= MaxVersion
           /\ IF u \in gone THEN Stop(c)
              ELSE Then(c, Each("picture", u, v) \o <<[j |-> "save", u |-> u, v |-> v, row |-> face[u]]>>)
    /\ UNCHANGED <<textures, env, avatars>>
PutAvatarBytes(c) ==
    /\ At(c, "picture") /\ Then(c, <<>>)
    /\ pictures' = pictures \cup {<<Job(c).u, Job(c).v, Job(c).size>>}
    /\ UNCHANGED <<textures, env, face, gone>>
\* The second picture fails: both are deleted.
PutAvatarBytesFails(c) ==
    /\ At(c, "picture") /\ faults > 0 /\ faults' = faults - 1
    /\ todo' = [todo EXCEPT ![c] = IF Job(c).size = "small" THEN <<>> ELSE DropPictures(Job(c).u, Job(c).v)]
    /\ UNCHANGED <<textures, plan, stale, avatars>>
SaveAvatar(c) ==
    /\ At(c, "save")
    /\ LET x == Job(c) IN
          IF Writable(x.u, x.row)
          THEN /\ face' = [face EXCEPT ![x.u] = [source |-> "upload", ver |-> x.v]]
               /\ Then(c, DropUpload(x.u, x.row))
          ELSE face' = face /\ Then(c, DropPictures(x.u, x.v))
    /\ UNCHANGED <<textures, env, pictures, gone>>
\* The write fails: the new pictures are deleted again.
SaveAvatarFails(c) ==
    /\ At(c, "save") /\ faults > 0 /\ faults' = faults - 1
    /\ Then(c, DropPictures(Job(c).u, Job(c).v))
    /\ UNCHANGED <<textures, plan, stale, avatars>>
DropPicture(c) ==
    /\ At(c, "drop") /\ Then(c, <<>>)
    /\ pictures' = pictures \ {<<Job(c).u, Job(c).v, Job(c).size>>}
    /\ UNCHANGED <<textures, env, face, gone>>
\* A picture that cannot be deleted is only logged.
DropPictureFails(c) ==
    /\ At(c, "drop") /\ faults > 0 /\ faults' = faults - 1 /\ stale' = stale \cup {"picture"}
    /\ Then(c, <<>>)
    /\ UNCHANGED <<textures, plan, avatars>>

ReadForSource(c) ==
    /\ At(c, "source")
    /\ LET x == Job(c) IN
          IF x.u \in gone \/ (face[x.u] = None /\ x.source = "none") THEN Stop(c)
          ELSE Then(c, <<[j |-> "switch", u |-> x.u, source |-> x.source, row |-> face[x.u]]>>)
    /\ UNCHANGED <<textures, env, avatars>>
SaveSource(c) ==
    /\ At(c, "switch")
    /\ LET x == Job(c)
           v == IF x.row = None THEN 0 ELSE x.row.ver + 1
       IN  /\ v <= MaxVersion
           /\ IF Writable(x.u, x.row)
              THEN /\ face' = [face EXCEPT ![x.u] = [source |-> x.source, ver |-> v]]
                   /\ Then(c, DropUpload(x.u, x.row))
              ELSE face' = face /\ Stop(c)
    /\ UNCHANGED <<textures, env, pictures, gone>>

\* A first display name creates the row; a later one leaves the avatar's columns alone.
ReadForName(c) ==
    /\ At(c, "nickname")
    /\ IF Job(c).u \in gone THEN Stop(c)
       ELSE Then(c, <<[j |-> "rename", u |-> Job(c).u, row |-> face[Job(c).u]]>>)
    /\ UNCHANGED <<textures, env, avatars>>
SaveName(c) ==
    /\ At(c, "rename") /\ Stop(c)
    /\ LET x == Job(c) IN
          face' = IF x.row = None /\ Writable(x.u, x.row)
                  THEN [face EXCEPT ![x.u] = [source |-> "none", ver |-> 0]] ELSE face
    /\ UNCHANGED <<textures, env, pictures, gone>>

\* The avatar first, then the profiles one by one, then the wardrobe.
LeaveRead(c) ==
    /\ At(c, "leave")
    /\ LET u == Job(c).u IN
          Then(c, DropUpload(u, face[u])
                  \o SetToSeq({[j |-> "plist", p |-> p] : p \in {q \in Profiles : OwnerOf[q] = u}})
                  \o <<[j |-> "ulist", u |-> u], [j |-> "deleted", u |-> u]>>)
    /\ UNCHANGED <<textures, env, avatars>>
\* user_repo::delete_by_id; the foreign keys take the public profile and what textures are left along.
LeaveDelete(c) ==
    /\ At(c, "deleted") /\ Stop(c)
    /\ LET own == {t \in Live : rows[t].owner = Job(c).u} IN
          /\ rows' = [t \in Ids |-> IF t \in own THEN None ELSE rows[t]]
          /\ bind' = [s \in Slots |-> IF bind[s] \in own THEN None ELSE bind[s]]
          /\ preset' = [s \in Slots |-> IF preset[s] \in own THEN None ELSE preset[s]]
          \* textures that were in no wardrobe and on no profile leave their objects behind
          /\ stale' = IF own = {} THEN stale ELSE stale \cup {"blob", "lookup"}
    /\ gone' = gone \cup {Job(c).u} /\ face' = [face EXCEPT ![Job(c).u] = None]
    /\ UNCHANGED <<stamp, blobs, cache, plan, faults, pictures>>

AvatarRequest(c) ==
    /\ UploadAvatar(c) \/ PutAvatarSource(c) \/ PatchProfile(c) \/ DeleteUser(c)
    /\ UNCHANGED avatars
AvatarStep(c) ==
    \/ ReadFace(c) \/ PutAvatarBytes(c) \/ PutAvatarBytesFails(c) \/ SaveAvatar(c) \/ SaveAvatarFails(c)
    \/ DropPicture(c) \/ DropPictureFails(c) \/ ReadForSource(c) \/ SaveSource(c)
    \/ ReadForName(c) \/ SaveName(c) \/ LeaveRead(c) \/ LeaveDelete(c)
StoreNext ==
    \/ TextureNext /\ UNCHANGED avatars
    \/ \E c \in Clients : AvatarRequest(c) \/ AvatarStep(c)
StoreSpec == StoreInit /\ [][StoreNext]_storeVars

-----------------------------------------------------------------------------
(* The jobs of a request, with their arguments.                            *)

BindModes == {"bind", "preserve", "apply"}
StoreJob == [j : {"find", "put", "create"}, u : Users, ty : Types, src : Sources, h : Hashes, m : Models,
             p : {None}, mode : {"wardrobe"}]
            \cup [j : {"find", "put", "create"}, u : Users, ty : Types, src : Sources, h : Hashes, m : Models,
                  p : Profiles, mode : BindModes]
PrevJob == [j : {"prev"}, s : Slots, t : Ids, h : Hashes, mode : BindModes]
UpsertJob == [j : {"upsert"}, s : Slots, t : Ids, mode : BindModes, prev : {None}, snap : {None}]
             \cup [j : {"upsert"}, s : Slots, t : Ids, mode : BindModes, prev : Ids, snap : Row]
BindJob == [j : {"remember", "bread"}, s : Slots, t : Ids]
PresetJob == [j : {"preset"}, s : Profiles \X {"skin", "cape"}]
AssetJob == [j : {"asset", "assetdel"}, t : Ids, snap : Row]
ProfileJob == [j : {"props", "touch", "plist"}, p : Profiles]
PurgedJob == [j : {"purged"}, p : Profiles, due : BOOLEAN]
HashJob == [j : {"lookup", "blob", "unlink", "hlist", "hdel", "bfind", "bset"}, h : Hashes]
RreadJob == [j : {"rread"}, u : Users, t : Ids, h : Hashes, m : Models]
RputJob == [j : {"rput", "rlist"}, t : Ids, h : Hashes, m : Models, snap : Row, n : Nat]
RcasJob == [j : {"rcas", "rreread"}, t : Ids, h : Hashes, m : Models, snap : Row, n : Nat, ps : SUBSET Profiles]
MreadJob == [j : {"mread"}, u : Users, t : Ids, m : Models]
MwriteJob == [j : {"mwrite"}, t : Ids, m : Models, snap : Row]
TexJob == [j : {"mlist", "aread", "aunbind", "gdel"}, t : Ids]
OwnJob == [j : {"cread", "wlist"}, u : Users, t : Ids]
CopyJob == [j : {"ccheck", "ccreate"}, u : Users, t : Ids, snap : Row]
WfindJob == [j : {"wfind"}, u : Users \cup {None}, t : Ids, ps : SUBSET Profiles]
WdelJob == [j : {"wdel"}, t : Ids, ps : SUBSET Profiles, snap : Row]
UserJob == [j : {"ulist", "face", "nickname", "leave", "deleted"}, u : Users]
UfindJob == [j : {"ufind"}, s : Slots, all : BOOLEAN]
UdelJob == [j : {"udel"}, s : Slots, all : BOOLEAN, t : Ids, snap : Row]
OfindJob == [j : {"ofind"}, s : Slots]
BareJob == [j : {"glist", "klist", "kend"}]
RegisterJob == [j : {"gfind", "gmark"}, s : Slots, t : Ids, snap : Row]
GbindJob == [j : {"gbind"}, s : Slots, t : Ids, prev : Ids, snap : Row]
PreadJob == [j : {"pread"}, p : Profiles, stamp : 0..MaxStamp]
PsetJob == [j : {"pset"}, p : Profiles, stamp : 0..MaxStamp, val : SUBSET (Types \X Hashes \X Models)]
PictureJob == [j : {"picture", "drop"}, u : Users, v : 0..MaxVersion, size : {"small", "large"}]
SaveJob == [j : {"save"}, u : Users, v : 0..MaxVersion, row : Face \cup {None}]
SourceJob == [j : {"source"}, u : Users, source : AvatarSource \ {"upload"}]
SwitchJob == [j : {"switch"}, u : Users, source : AvatarSource \ {"upload"}, row : Face \cup {None}]
RenameJob == [j : {"rename"}, u : Users, row : Face \cup {None}]

StoreJobs ==
    StoreJob \cup PrevJob \cup UpsertJob \cup BindJob \cup PresetJob \cup AssetJob \cup ProfileJob \cup PurgedJob
    \cup HashJob \cup RreadJob \cup RputJob \cup RcasJob \cup MreadJob \cup MwriteJob \cup TexJob \cup OwnJob
    \cup CopyJob \cup WfindJob \cup WdelJob \cup UserJob \cup UfindJob \cup UdelJob \cup OfindJob \cup BareJob
    \cup RegisterJob \cup GbindJob \cup PreadJob \cup PsetJob \cup PictureJob \cup SaveJob \cup SourceJob
    \cup SwitchJob \cup RenameJob

-----------------------------------------------------------------------------
(* Properties.                                                             *)

Uploaded(u) == face[u] # None /\ face[u].source = "upload"
PicturesOf(u) == {<<u, face[u].ver, Sizes[i]>> : i \in 1..Len(Sizes)}
Leaving(u) == \E c \in Clients : \E i \in DOMAIN todo[c] : todo[c][i].j = "deleted" /\ todo[c][i].u = u

(* With one request at a time, an uploaded avatar has both its pictures at *)
(* every step and after a failure of any, because upload_avatar puts them  *)
(* before it writes the row and deletes the former ones after it; unless   *)
(* the deletion of the whole account is under way or was broken off.       *)
AvatarHasPictures ==
    plan.serial => \A u \in Users \ stale : Uploaded(u) /\ ~ Leaving(u) => PicturesOf(u) \subseteq pictures

(* With one request at a time, no picture is left behind once all is done, *)
(* unless a request was cut off or a deletion failed.                      *)
NoOrphanPicture ==
    plan.serial /\ AtRest /\ "picture" \notin stale =>
        pictures = UNION {PicturesOf(u) : u \in {w \in Users : Uploaded(w)}}

(* Tables and object store agree at every step, for textures and avatars,  *)
(* between put and write of an upload and between count and delete of a    *)
(* clean-up.                                                               *)
ObjectsInPlace ==
    /\ StoreConsistent /\ AvatarHasPictures
    /\ face \in [Users -> Face \cup {None}] /\ gone \subseteq Users
    /\ todo \in [Clients -> Seq(StoreJobs)]

(* Once the requests have finished nothing is left over: no object and no  *)
(* picture without a row, no texture without a use, no lookup of a deleted *)
(* object.                                                                 *)
ObjectsAllUsed == NothingLeftOver /\ NoOrphanPicture
==============================================================================
