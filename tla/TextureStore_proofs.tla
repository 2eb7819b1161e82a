------------------------- MODULE TextureStore_proofs --------------------------
(***************************************************************************)
(* Proofs about the texture and avatar requests, for any finite sets of    *)
(* profiles, texture types and objects, any users and clients and every    *)
(* workload: the types, the foreign keys of bindings and presets, and,     *)
(* with one request at a time but failures and crashes at any statement,   *)
(* that no row and no uploaded avatar loses its objects.  The invariant,   *)
(* PlaceInv, says of every statement a request has still to execute what   *)
(* the statements before it have established, by the shape of the list     *)
(* (ListsShaped) and by what its head relies on (HeadSafe, FaceSafe).      *)
(***************************************************************************)
EXTENDS Avatars, FiniteSetTheorems, SequenceTheorems, TLAPS

-----------------------------------------------------------------------------
(* The jobs of a request                                                   *)

\* A job of each set, told by its kind.
LEMMA JobKinds ==
    ASSUME NEW x \in StoreJobs
    PROVE  /\ x.j \in {"find", "put", "create"} => x \in StoreJob
           /\ x.j = "prev" => x \in PrevJob
           /\ x.j = "upsert" => x \in UpsertJob
           /\ x.j \in {"remember", "bread"} => x \in BindJob
           /\ x.j = "preset" => x \in PresetJob
           /\ x.j \in {"asset", "assetdel"} => x \in AssetJob
           /\ x.j \in {"props", "touch", "plist"} => x \in ProfileJob
           /\ x.j = "purged" => x \in PurgedJob
           /\ x.j \in {"lookup", "blob", "unlink", "hlist", "hdel", "bfind", "bset"} => x \in HashJob
           /\ x.j = "rread" => x \in RreadJob
           /\ x.j \in {"rput", "rlist"} => x \in RputJob
           /\ x.j \in {"rcas", "rreread"} => x \in RcasJob
           /\ x.j = "mread" => x \in MreadJob
           /\ x.j = "mwrite" => x \in MwriteJob
           /\ x.j \in {"mlist", "aread", "aunbind", "gdel"} => x \in TexJob
           /\ x.j \in {"cread", "wlist"} => x \in OwnJob
           /\ x.j \in {"ccheck", "ccreate"} => x \in CopyJob
           /\ x.j = "wfind" => x \in WfindJob
           /\ x.j = "wdel" => x \in WdelJob
           /\ x.j \in {"ulist", "face", "nickname", "leave", "deleted"} => x \in UserJob
           /\ x.j = "ufind" => x \in UfindJob
           /\ x.j = "udel" => x \in UdelJob
           /\ x.j = "ofind" => x \in OfindJob
           /\ x.j \in {"gfind", "gmark"} => x \in RegisterJob
           /\ x.j = "gbind" => x \in GbindJob
           /\ x.j = "pread" => x \in PreadJob
           /\ x.j = "pset" => x \in PsetJob
           /\ x.j \in {"picture", "drop"} => x \in PictureJob
           /\ x.j = "save" => x \in SaveJob
           /\ x.j = "source" => x \in SourceJob
           /\ x.j = "switch" => x \in SwitchJob
           /\ x.j = "rename" => x \in RenameJob
<1> USE DEF StoreJob, PrevJob, UpsertJob, BindJob, PresetJob, AssetJob, ProfileJob, PurgedJob, HashJob, RreadJob,
            RputJob, RcasJob, MreadJob, MwriteJob, TexJob, OwnJob, CopyJob, WfindJob, WdelJob, UserJob, UfindJob,
            UdelJob, OfindJob, BareJob, RegisterJob, GbindJob, PreadJob, PsetJob, PictureJob, SaveJob, SourceJob,
            SwitchJob, RenameJob
<1> QED BY SMTT(120) DEF StoreJobs

-----------------------------------------------------------------------------
(* The inductive invariant                                                 *)

JobsOf(K) == {x \in StoreJobs : x.j \in K}
JobsBut(K) == {x \in StoreJobs : x.j \notin K}
\* Statements that are only ever the next one of their request.
Solo == {"put", "create", "unlink", "rput", "rlist", "rcas", "rreread", "ccheck", "ccreate"}
\* Statements of an avatar that are a request of their own.
Lone == {"face", "leave", "source", "switch"}
FaceKinds == {"picture", "drop", "save", "deleted"} \cup Lone
\* What the deletion of an account consists of.
LeaveKinds == {"drop", "plist", "ufind", "udel", "asset", "assetdel", "blob", "unlink", "lookup", "props", "touch",
               "purged", "ulist", "wlist", "wfind", "wdel", "deleted"}
Light == {"plist", "ufind", "asset", "blob", "lookup", "props", "touch", "purged", "wlist"}

StoreTyped ==
    /\ rows \in [Ids -> Row \cup {None}] /\ bind \in [Slots -> Ids \cup {None}]
    /\ preset \in [Slots -> Ids \cup {None}] /\ stamp \in [Profiles -> 0..MaxStamp]
    /\ blobs \subseteq Hashes /\ lookup \subseteq Hashes /\ props \subseteq Entry
    /\ todo \in [Clients -> Seq(StoreJobs)] /\ plan \in StoreLoads /\ faults \in Nat
    /\ stale \subseteq Profiles \cup Users \cup Leftovers
    /\ face \in [Users -> Face \cup {None}] /\ gone \subseteq Users
\* The foreign keys of bindings and presets.
Cascaded == \A s \in Slots : (bind[s] # None => rows[bind[s]] # None) /\ (preset[s] # None => rows[preset[s]] # None)

Ending(q) == q[Len(q)]
Shaped(q) ==
    /\ \A i \in DOMAIN q : i > 1 => q[i].j \notin Solo
    /\ \A i \in DOMAIN q : q[i].j \in {"save", "deleted"} => i = Len(q)
    /\ \A i \in DOMAIN q : q[i].j = "picture" => Ending(q).j = "save"
    /\ \A i \in DOMAIN q : q[i].j \in Lone => Len(q) = 1
    /\ q # <<>> /\ Ending(q).j = "save" =>
          \A i \in DOMAIN q : i < Len(q) => q[i].j = "picture" /\ q[i].u = Ending(q).u /\ q[i].v = Ending(q).v
    /\ q # <<>> /\ Ending(q).j = "deleted" => \A i \in DOMAIN q : q[i].j \in LeaveKinds
ListsShaped == \A c \in Clients : Shaped(todo[c])

OneAtATime == \A c, d \in Clients : todo[c] # <<>> /\ todo[d] # <<>> => c = d
\* What the next statement relies on.
Safe(x) ==
    /\ x.j \in {"create", "rlist", "rcas", "rreread"} => x.h \in blobs
    /\ x.j \in {"ccheck", "ccreate"} => x.snap.hash \in blobs
    /\ x.j = "unlink" => \A t \in Ids : rows[t] # None => rows[t].hash # x.h
HeadSafe == \A c \in Clients : todo[c] # <<>> => Safe(Head(todo[c]))
\* Pictures are only dropped when no row, or the row of a leaving user, points at them.
Droppable(q, x) ==
    ~ Uploaded(x.u) \/ face[x.u].ver # x.v \/ (Ending(q).j = "deleted" /\ Ending(q).u = x.u)
DropsFine(q) == \A i \in DOMAIN q : q[i].j = "drop" => Droppable(q, q[i])
\* An upload writes the version after the row's, when both pictures are in place.
Saves(q) ==
    q # <<>> /\ Ending(q).j = "save" =>
       LET x == Ending(q)
       IN  /\ x.row = face[x.u] /\ x.v = NextVersion(face[x.u])
           /\ \A z \in {"small", "large"} :
                 \/ <<x.u, x.v, z>> \in pictures
                 \/ \E i \in DOMAIN q : q[i].j = "picture" /\ q[i].size = z
FaceSafe == \A c \in Clients : DropsFine(todo[c]) /\ Saves(todo[c])

SerialInv == plan.serial => OneAtATime /\ HeadSafe /\ RowHasBlob /\ FaceSafe /\ AvatarHasPictures
PlaceInv == StoreTyped /\ Cascaded /\ ListsShaped /\ SerialInv

-----------------------------------------------------------------------------
(* How a statement changes the list of its request                         *)

\* What a statement of TextureStore puts in front of the rest.
Calm(k, N) ==
    \/ N \in Seq(JobsOf(Light))
    \/ \E r \in JobsBut(FaceKinds) : N = <<r>> /\ (k \in LeaveKinds => r.j \in LeaveKinds)
    \/ k \notin LeaveKinds /\ N \in Seq(JobsBut(Solo \cup FaceKinds))
\* The rest, with a purge marked.
Alike(R, Q) ==
    /\ R \in Seq(StoreJobs) /\ Len(R) = Len(Q)
    /\ \A i \in 1 .. Len(Q) : R[i] = Q[i] \/ (Q[i].j = "purged" /\ R[i].j = "purged")
Moved(c) ==
    \E N, R \in Seq(StoreJobs) :
        /\ todo' = [todo EXCEPT ![c] = N \o R]
        /\ Alike(R, Tail(todo[c])) /\ Calm(Head(todo[c]).j, N)
        /\ plan.serial => \A r : N = <<r>> => Safe(r)'
Halted(c) == Stop(c) /\ Head(todo[c]).j \notin LeaveKinds

LEMMA CalmShape ==
    ASSUME NEW k, NEW N \in Seq(StoreJobs), Calm(k, N)
    PROVE  /\ \A i \in DOMAIN N : N[i].j \notin FaceKinds
           /\ \A i \in DOMAIN N : N[i].j \in Solo => N = <<N[1]>> /\ i = 1
           /\ k \in LeaveKinds => \A i \in DOMAIN N : N[i].j \in LeaveKinds
<1>1. CASE N \in Seq(JobsOf(Light))
  <2>1. \A i \in DOMAIN N : N[i] \in JobsOf(Light) BY <1>1
  <2>2. \A i \in DOMAIN N : N[i].j \in Light BY <2>1 DEF JobsOf
  <2> QED BY <2>2 DEF Light, FaceKinds, Lone, Solo, LeaveKinds
<1>2. CASE \E r \in JobsBut(FaceKinds) : N = <<r>> /\ (k \in LeaveKinds => r.j \in LeaveKinds)
  <2>1. PICK r \in JobsBut(FaceKinds) : N = <<r>> /\ (k \in LeaveKinds => r.j \in LeaveKinds)
    BY <1>2
  <2>2. DOMAIN N = {1} /\ N[1] = r /\ r.j \notin FaceKinds BY <2>1 DEF JobsBut
  <2> QED BY <2>1, <2>2
<1>3. CASE k \notin LeaveKinds /\ N \in Seq(JobsBut(Solo \cup FaceKinds))
  <2>1. \A i \in DOMAIN N : N[i] \in JobsBut(Solo \cup FaceKinds) BY <1>3
  <2>2. \A i \in DOMAIN N : N[i].j \notin Solo /\ N[i].j \notin FaceKinds
    BY <2>1 DEF JobsBut
  <2> QED BY <1>3, <2>2
<1> QED BY <1>1, <1>2, <1>3 DEF Calm

\* The list after a statement of TextureStore, place by place.
Spread(q, N, w) ==
    /\ w \in Seq(StoreJobs) /\ Len(w) = Len(N) + Len(q) - 1 /\ DOMAIN w = 1 .. Len(w)
    /\ \A i \in DOMAIN w : i <= Len(N) => i \in DOMAIN N /\ w[i] = N[i]
    /\ \A i \in DOMAIN w : i > Len(N) => /\ i - Len(N) + 1 \in DOMAIN q /\ i - Len(N) + 1 > 1
                                        /\ \/ w[i] = q[i - Len(N) + 1]
                                           \/ q[i - Len(N) + 1].j = "purged" /\ w[i].j = "purged"
    /\ Head(q) = q[1] /\ 1 \in DOMAIN q
LEMMA ListAfter ==
    ASSUME NEW q \in Seq(StoreJobs), q # <<>>, NEW N \in Seq(StoreJobs), NEW R \in Seq(StoreJobs), Alike(R, Tail(q)),
           NEW w, w = N \o R
    PROVE  Spread(q, N, w)
<1>1. w \in Seq(StoreJobs) /\ Len(w) = Len(N) + Len(R) /\ DOMAIN w = 1 .. Len(w) OBVIOUS
<1>2. Len(R) = Len(q) - 1 /\ Head(q) = q[1] /\ 1 \in DOMAIN q /\ Len(q) \in Nat /\ Len(N) \in Nat
  BY DEF Alike
<1>3. \A i \in DOMAIN w : i <= Len(N) => i \in DOMAIN N /\ w[i] = N[i]
  BY <1>1, <1>2
<1>4. ASSUME NEW i \in DOMAIN w, i > Len(N)
      PROVE  /\ i - Len(N) + 1 \in DOMAIN q /\ i - Len(N) + 1 > 1
             /\ \/ w[i] = q[i - Len(N) + 1]
                \/ q[i - Len(N) + 1].j = "purged" /\ w[i].j = "purged"
  <2>1. i - Len(N) \in 1 .. Len(R) /\ i - Len(N) \in 1 .. Len(Tail(q)) BY <1>1, <1>2, <1>4
  <2>2. w[i] = R[i - Len(N)] BY <1>1, <1>2, <1>4, <2>1
  <2>3. Tail(q)[i - Len(N)] = q[i - Len(N) + 1] BY <2>1, <1>2
  <2>4. \/ R[i - Len(N)] = Tail(q)[i - Len(N)]
        \/ Tail(q)[i - Len(N)].j = "purged" /\ R[i - Len(N)].j = "purged"
    BY <2>1, <1>2 DEF Alike
  <2> QED BY <1>2, <2>1, <2>2, <2>3, <2>4
<1> QED BY <1>1, <1>2, <1>3, <1>4 DEF Spread

LEMMA ListStaysShaped ==
    ASSUME NEW q \in Seq(StoreJobs), q # <<>>, Shaped(q), Head(q).j \notin {"picture", "save", "deleted"},
           NEW N \in Seq(StoreJobs), NEW R \in Seq(StoreJobs), Alike(R, Tail(q)), Calm(Head(q).j, N)
    PROVE  /\ Shaped(N \o R)
           /\ \A i \in DOMAIN (N \o R) : (N \o R)[i].j \in FaceKinds =>
                 /\ \E k \in DOMAIN q : (N \o R)[i] = q[k]
                 /\ Ending(N \o R) = Ending(q) \/ (Ending(q).j = "purged" /\ Ending(N \o R).j = "purged")
           /\ N \o R # <<>> /\ Ending(N \o R).j \in FaceKinds => Ending(N \o R) = Ending(q)
           /\ N \o R # <<>> => Ending(N \o R).j # "save"
           /\ Ending(q).j = "deleted" => N \o R # <<>> /\ Ending(N \o R) = Ending(q)
<1> DEFINE w == N \o R
<1>a. Spread(q, N, w)
  BY ListAfter
<1>1. /\ w \in Seq(StoreJobs) /\ Len(w) = Len(N) + Len(q) - 1 /\ DOMAIN w = 1 .. Len(w)
      /\ \A i \in DOMAIN w : i <= Len(N) => i \in DOMAIN N /\ w[i] = N[i]
      /\ \A i \in DOMAIN w : i > Len(N) => /\ i - Len(N) + 1 \in DOMAIN q /\ i - Len(N) + 1 > 1
                                           /\ \/ w[i] = q[i - Len(N) + 1]
                                              \/ q[i - Len(N) + 1].j = "purged" /\ w[i].j = "purged"
      /\ Head(q) = q[1] /\ 1 \in DOMAIN q
  BY <1>a DEF Spread
<1>2. /\ \A i \in DOMAIN N : N[i].j \notin FaceKinds
      /\ \A i \in DOMAIN N : N[i].j \in Solo => N = <<N[1]>> /\ i = 1
      /\ Head(q).j \in LeaveKinds => \A i \in DOMAIN N : N[i].j \in LeaveKinds
  BY CalmShape
<1>3. Len(q) \in Nat \ {0} /\ Len(N) \in Nat /\ DOMAIN q = 1 .. Len(q) /\ DOMAIN N = 1 .. Len(N)
  OBVIOUS
<1> HIDE DEF w
<1>4. \A i \in DOMAIN w : i > 1 => w[i].j \notin Solo
  <2> SUFFICES ASSUME NEW i \in DOMAIN w, i > 1
               PROVE  w[i].j \notin Solo
    OBVIOUS
  <2>1. CASE i <= Len(N) BY <1>1, <1>2, <2>1
  <2>2. CASE i > Len(N)
    <3>1. q[i - Len(N) + 1].j \notin Solo BY <1>1, <2>2 DEF Shaped
    <3> QED BY <1>1, <2>2, <3>1 DEF Solo
  <2> QED BY <1>1, <1>3, <2>1, <2>2
\* The place a statement of an avatar had before.
<1>5. ASSUME NEW i \in DOMAIN w, w[i].j \in FaceKinds
      PROVE  i > Len(N) /\ i - Len(N) + 1 \in DOMAIN q /\ w[i] = q[i - Len(N) + 1]
  <2>1. i > Len(N) BY <1>1, <1>2, <1>3, <1>5
  <2> QED BY <1>1, <1>5, <2>1 DEF FaceKinds, Lone
<1>6. Len(q) > 1 => w # <<>> /\ Len(w) \in DOMAIN w /\ (Ending(w) = Ending(q) \/ (Ending(q).j = "purged" /\ Ending(w).j = "purged"))
  <2> SUFFICES ASSUME Len(q) > 1
               PROVE  w # <<>> /\ Len(w) \in DOMAIN w /\ (Ending(w) = Ending(q) \/ (Ending(q).j = "purged" /\ Ending(w).j = "purged"))
    OBVIOUS
  <2>1. Len(w) \in DOMAIN w /\ Len(w) > Len(N) /\ Len(w) - Len(N) + 1 = Len(q)
    BY <1>1, <1>3
  <2>2. \/ w[Len(w)] = q[Len(w) - Len(N) + 1]
        \/ q[Len(w) - Len(N) + 1].j = "purged" /\ w[Len(w)].j = "purged"
    BY <1>1, <2>1
  <2>3. w # <<>> BY <1>1, <1>3, <2>1
  <2> QED BY <2>1, <2>2, <2>3 DEF Ending
<1>7. Ending(q).j \in {"save", "deleted"} => Len(q) > 1
  <2>1. Len(q) = 1 => Ending(q) = Head(q) BY <1>1, <1>3 DEF Ending
  <2> QED BY <1>3, <2>1
<1>8. Ending(q).j # "save"
  <2>1. ASSUME Ending(q).j = "save"
        PROVE  Head(q).j = "picture"
    <3>1. 1 \in DOMAIN q /\ 1 < Len(q) /\ Head(q) = q[1] BY <1>1, <1>3, <1>7, <2>1
    <3>2. \A i \in DOMAIN q : i < Len(q) => q[i].j = "picture" BY <2>1 DEF Shaped
    <3> QED BY <3>1, <3>2
  <2> QED BY <2>1
<1>9. ASSUME NEW i \in DOMAIN w, w[i].j \in FaceKinds
      PROVE  /\ \E k \in DOMAIN q : w[i] = q[k]
             /\ Ending(w) = Ending(q) \/ (Ending(q).j = "purged" /\ Ending(w).j = "purged")
             /\ w[i].j \in {"save", "deleted"} => i = Len(w)
             /\ w[i].j # "picture" /\ w[i].j \notin Lone
  <2>1. i > Len(N) /\ i - Len(N) + 1 \in DOMAIN q /\ w[i] = q[i - Len(N) + 1]
    BY <1>5, <1>9
  <2>2. Len(q) > 1 BY <1>1, <1>3, <2>1
  <2>3. q[i - Len(N) + 1].j \in {"save", "deleted"} => i - Len(N) + 1 = Len(q)
    BY <2>1 DEF Shaped
  <2>4. q[i - Len(N) + 1].j # "picture" BY <1>8, <2>1 DEF Shaped
  <2>5. q[i - Len(N) + 1].j \notin Lone BY <1>3, <2>1, <2>2 DEF Shaped
  <2> QED BY <1>1, <1>3, <1>6, <2>1, <2>2, <2>3, <2>4, <2>5
<1>10. w # <<>> /\ Ending(w).j \in FaceKinds => Ending(w) = Ending(q)
  <2> SUFFICES ASSUME w # <<>>, Ending(w).j \in FaceKinds
               PROVE  Ending(w) = Ending(q)
    OBVIOUS
  <2>1. Len(w) \in DOMAIN w BY <1>1
  <2> QED BY <1>9, <2>1 DEF Ending, FaceKinds, Lone
<1>11. w # <<>> => Ending(w).j # "save"
  BY <1>8, <1>10 DEF FaceKinds, Lone
<1>12. Ending(q).j = "deleted" => w # <<>> /\ Ending(w) = Ending(q)
  BY <1>6, <1>7
<1>13. ASSUME w # <<>>, Ending(w).j = "deleted", NEW i \in DOMAIN w
       PROVE  w[i].j \in LeaveKinds
  <2>1. Ending(q).j = "deleted" BY <1>10, <1>13 DEF FaceKinds, Lone
  <2>2. \A k \in DOMAIN q : q[k].j \in LeaveKinds BY <2>1 DEF Shaped
  <2>3. CASE i <= Len(N) BY <1>1, <1>2, <2>2, <2>3
  <2>4. CASE i > Len(N)
    <3>1. q[i - Len(N) + 1].j \in LeaveKinds BY <1>1, <2>2, <2>4
    <3> QED BY <1>1, <2>4, <3>1 DEF LeaveKinds
  <2> QED BY <1>1, <1>3, <2>3, <2>4
<1>14. Shaped(w)
  BY <1>4, <1>9, <1>11, <1>13 DEF Shaped, FaceKinds, Lone
<1> QED BY <1>9, <1>10, <1>11, <1>12, <1>14 DEF w

\* A statement that leaves the avatars alone keeps what the lists promise.
Aside == UNCHANGED <<plan, face, pictures>> /\ stale \cap Users \subseteq stale'

LEMMA ListMoves ==
    ASSUME StoreTyped, ListsShaped, NEW c \in Clients, todo[c] # <<>>,
           Head(todo[c]).j \notin {"picture", "save", "deleted"}, Moved(c)
    PROVE  \E w \in Seq(StoreJobs) :
              /\ todo' = [todo EXCEPT ![c] = w] /\ Shaped(w)
              /\ \A i \in DOMAIN w : w[i].j \in FaceKinds =>
                    /\ \E k \in DOMAIN todo[c] : w[i] = todo[c][k]
                    /\ Ending(w) = Ending(todo[c]) \/ (Ending(todo[c]).j = "purged" /\ Ending(w).j = "purged")
              /\ w # <<>> => Ending(w).j # "save"
              /\ Ending(todo[c]).j = "deleted" => w # <<>> /\ Ending(w) = Ending(todo[c])
              /\ w # <<>> /\ Head(w).j \in Solo /\ plan.serial => Safe(Head(w))'
<1>1. PICK N, R \in Seq(StoreJobs) :
        /\ todo' = [todo EXCEPT ![c] = N \o R]
        /\ Alike(R, Tail(todo[c])) /\ Calm(Head(todo[c]).j, N)
        /\ plan.serial => \A r : N = <<r>> => Safe(r)'
  BY DEF Moved
<1>0. PICK q : q = todo[c] OBVIOUS
<1> DEFINE w == N \o R
<1>2. /\ q \in Seq(StoreJobs) /\ q # <<>> /\ Shaped(q)
      /\ Alike(R, Tail(q)) /\ Calm(Head(q).j, N) /\ Head(q).j \notin {"picture", "save", "deleted"}
  BY <1>0, <1>1 DEF StoreTyped, ListsShaped
<1>3. /\ Shaped(w)
      /\ \A i \in DOMAIN w : w[i].j \in FaceKinds =>
            /\ \E k \in DOMAIN q : w[i] = q[k]
            /\ Ending(w) = Ending(q) \/ (Ending(q).j = "purged" /\ Ending(w).j = "purged")
      /\ w # <<>> /\ Ending(w).j \in FaceKinds => Ending(w) = Ending(q)
      /\ w # <<>> => Ending(w).j # "save"
      /\ Ending(q).j = "deleted" => w # <<>> /\ Ending(w) = Ending(q)
  BY <1>1, <1>2, ListStaysShaped
<1>4. ASSUME w # <<>>, Head(w).j \in Solo, plan.serial
      PROVE  Safe(Head(w))'
  <2>1. /\ w \in Seq(StoreJobs) /\ Len(w) = Len(N) + Len(q) - 1 /\ DOMAIN w = 1 .. Len(w)
        /\ \A i \in DOMAIN w : i <= Len(N) => i \in DOMAIN N /\ w[i] = N[i]
        /\ \A i \in DOMAIN w : i > Len(N) => /\ i - Len(N) + 1 \in DOMAIN q /\ i - Len(N) + 1 > 1
                                             /\ \/ w[i] = q[i - Len(N) + 1]
                                                \/ q[i - Len(N) + 1].j = "purged" /\ w[i].j = "purged"
    <3>1. Spread(q, N, w) BY <1>2, ListAfter
    <3> HIDE DEF w
    <3> QED BY <3>1 DEF Spread
  <2>2. \A i \in DOMAIN N : N[i].j \in Solo => N = <<N[1]>> /\ i = 1 BY <1>2, CalmShape
  <2>3. 1 \in DOMAIN w /\ Head(w) = w[1] /\ Len(N) \in Nat BY <1>4, <2>1
  <2>4. CASE 1 <= Len(N)
    <3>1. N = <<w[1]>> BY <1>4, <2>1, <2>2, <2>3, <2>4
    <3>2. PICK r : r = w[1] OBVIOUS
    <3>3. Safe(r)' BY <1>1, <1>4, <3>1, <3>2
    <3> QED BY <2>3, <3>2, <3>3 DEF Safe
  <2>5. CASE 1 > Len(N)
    <3>1. q[1 - Len(N) + 1].j \notin Solo BY <1>2, <2>1, <2>3, <2>5 DEF Shaped
    <3> QED BY <1>4, <2>1, <2>3, <2>5, <3>1 DEF Solo
  <2> QED BY <2>3, <2>4, <2>5
<1>5. w \in Seq(StoreJobs) OBVIOUS
<1> QED BY <1>0, <1>1, <1>3, <1>4, <1>5

LEMMA MoveKeeps ==
    ASSUME StoreTyped, ListsShaped, NEW c \in Clients, todo[c] # <<>>,
           Head(todo[c]).j \notin {"picture", "save", "deleted"}, Moved(c), Aside
    PROVE  /\ todo' \in [Clients -> Seq(StoreJobs)] /\ ListsShaped'
           /\ plan.serial /\ SerialInv => OneAtATime' /\ HeadSafe' /\ FaceSafe' /\ AvatarHasPictures'
<1>1. PICK w \in Seq(StoreJobs) :
              /\ todo' = [todo EXCEPT ![c] = w] /\ Shaped(w)
              /\ \A i \in DOMAIN w : w[i].j \in FaceKinds =>
                    /\ \E k \in DOMAIN todo[c] : w[i] = todo[c][k]
                    /\ Ending(w) = Ending(todo[c]) \/ (Ending(todo[c]).j = "purged" /\ Ending(w).j = "purged")
              /\ w # <<>> => Ending(w).j # "save"
              /\ Ending(todo[c]).j = "deleted" => w # <<>> /\ Ending(w) = Ending(todo[c])
              /\ w # <<>> /\ Head(w).j \in Solo /\ plan.serial => Safe(Head(w))'
  BY ListMoves
<1>2. todo \in [Clients -> Seq(StoreJobs)]
  BY DEF StoreTyped
<1>3. todo' \in [Clients -> Seq(StoreJobs)] /\ todo'[c] = w /\ \A d \in Clients \ {c} : todo'[d] = todo[d]
  BY <1>1, <1>2
<1>4. ListsShaped'
  BY <1>1, <1>3 DEF ListsShaped, Shaped, Ending
<1>5. ASSUME plan.serial, SerialInv
      PROVE  OneAtATime' /\ HeadSafe' /\ FaceSafe' /\ AvatarHasPictures'
  <2>1. \A d \in Clients \ {c} : todo[d] = <<>> /\ todo'[d] = <<>>
    BY <1>3, <1>5 DEF SerialInv, OneAtATime
  <2>2. OneAtATime' BY <2>1 DEF OneAtATime
  <2>3. HeadSafe'
    <3>1. Head(w).j \notin Solo => Safe(Head(w))' BY DEF Safe, Solo
    <3>2. w # <<>> => Safe(Head(w))' BY <1>1, <1>5, <3>1
    <3> QED BY <1>3, <2>1, <3>2 DEF HeadSafe, Safe
  <2>4. FaceSafe'
    <3>1. DropsFine(todo[c]) /\ face' = face BY <1>5 DEF SerialInv, FaceSafe, Aside
    <3>2. ASSUME NEW i \in DOMAIN w, w[i].j = "drop"
          PROVE  Droppable(w, w[i])'
      <4>1. PICK k \in DOMAIN todo[c] : w[i] = todo[c][k]
        BY <1>1, <3>2 DEF FaceKinds, Lone
      <4>2. Droppable(todo[c], w[i]) BY <3>1, <3>2, <4>1 DEF DropsFine
      <4>3. Ending(todo[c]).j = "deleted" => Ending(w) = Ending(todo[c]) BY <1>1
      <4> QED BY <3>1, <4>2, <4>3 DEF Droppable, Uploaded, Ending
    <3>3. DropsFine(w)' BY <3>2 DEF DropsFine, Droppable, Uploaded, Ending
    <3>4. Saves(w)' BY <1>1 DEF Saves, Ending
    <3>5. \A d \in Clients \ {c} : DropsFine(todo[d])' /\ Saves(todo[d])'
      BY <2>1 DEF DropsFine, Saves
    <3>6. DropsFine(todo[c])' /\ Saves(todo[c])'
      BY <1>3, <3>3, <3>4 DEF DropsFine, Saves, Droppable, Uploaded, Ending
    <3> QED BY <3>5, <3>6 DEF FaceSafe
  <2>5. ASSUME NEW u \in Users
        PROVE  Leaving(u) => Leaving(u)'
    <3> SUFFICES ASSUME Leaving(u)
                 PROVE  Leaving(u)'
      OBVIOUS
    <3>1. PICK d \in Clients : \E i \in DOMAIN todo[d] : todo[d][i].j = "deleted" /\ todo[d][i].u = u
      BY DEF Leaving
    <3>0. PICK i \in DOMAIN todo[d] : todo[d][i].j = "deleted" /\ todo[d][i].u = u BY <3>1
    <3>2. d = c BY <2>1, <3>1
    <3>3. i = Len(todo[c]) /\ Ending(todo[c]).j = "deleted" /\ Ending(todo[c]).u = u
      BY <3>0, <3>2 DEF ListsShaped, Shaped, Ending
    <3>4. w # <<>> /\ Ending(w).j = "deleted" /\ Ending(w).u = u /\ Len(w) \in DOMAIN w
      BY <1>1, <3>3
    <3> QED BY <1>3, <3>4 DEF Leaving, Ending
  <2>6. AvatarHasPictures'
    <3>1. AvatarHasPictures BY <1>5 DEF SerialInv
    <3>2. \A u \in Users : (u \notin stale' => u \notin stale) /\ (Leaving(u) => Leaving(u)')
      BY <2>5 DEF Aside
    <3> QED BY <1>5, <3>1, <3>2 DEF AvatarHasPictures, Aside, Uploaded, PicturesOf
  <2> QED BY <2>2, <2>3, <2>4, <2>6
<1> QED BY <1>3, <1>4, <1>5

\* A request that is cut short, and is not the deletion of an account, leaves no picture to save or drop.
Cut(c, w) == todo' = [todo EXCEPT ![c] = w] /\ Head(todo[c]).j \notin LeaveKinds
LEMMA CutKeeps ==
    ASSUME StoreTyped, ListsShaped, NEW c \in Clients, todo[c] # <<>>, NEW w \in Seq(JobsOf(Light)), Cut(c, w), Aside
    PROVE  /\ todo' \in [Clients -> Seq(StoreJobs)] /\ ListsShaped'
           /\ plan.serial /\ SerialInv => OneAtATime' /\ HeadSafe' /\ FaceSafe' /\ AvatarHasPictures'
<1>0. w \in Seq(StoreJobs) /\ (w # <<>> => Len(w) \in DOMAIN w /\ Head(w) = w[1] /\ 1 \in DOMAIN w)
  BY DEF JobsOf
<1>1. /\ todo' \in [Clients -> Seq(StoreJobs)] /\ todo'[c] = w /\ \A d \in Clients \ {c} : todo'[d] = todo[d]
      /\ todo[c] \in Seq(StoreJobs)
  BY <1>0 DEF StoreTyped, Cut
<1>l. \A i \in DOMAIN w : w[i].j \in Light
  <2>1. \A i \in DOMAIN w : w[i] \in JobsOf(Light) OBVIOUS
  <2> QED BY <2>1 DEF JobsOf
<1>m. \A i \in DOMAIN w : w[i].j \notin Solo /\ w[i].j \notin FaceKinds /\ w[i].j \in LeaveKinds
  BY <1>l DEF Light, Solo, FaceKinds, Lone, LeaveKinds
<1>e. w # <<>> => Ending(w).j \notin FaceKinds /\ Head(w).j \notin Solo
  BY <1>0, <1>m DEF Ending
<1>2. Shaped(w)
  BY <1>m, <1>e DEF Shaped, FaceKinds, Lone
<1>3. ListsShaped'
  BY <1>1, <1>2 DEF ListsShaped, Shaped, Ending
<1>4. ASSUME plan.serial, SerialInv
      PROVE  OneAtATime' /\ HeadSafe' /\ FaceSafe' /\ AvatarHasPictures'
  <2>1. \A d \in Clients \ {c} : todo'[d] = <<>> BY <1>1, <1>4 DEF SerialInv, OneAtATime
  <2>a. OneAtATime' BY <2>1 DEF OneAtATime
  <2>b. HeadSafe' BY <1>1, <1>e, <2>1 DEF HeadSafe, Safe, Solo
  <2>c. FaceSafe'
    <3>1. \A d \in Clients \ {c} : DropsFine(todo[d])' /\ Saves(todo[d])'
      BY <2>1 DEF DropsFine, Saves
    <3>2. DropsFine(todo[c])' /\ Saves(todo[c])'
      BY <1>1, <1>m, <1>e DEF DropsFine, Saves, FaceKinds, Lone, Ending
    <3> QED BY <3>1, <3>2 DEF FaceSafe
  <2>2. OneAtATime' /\ HeadSafe' /\ FaceSafe' BY <2>a, <2>b, <2>c
  <2>3. ASSUME NEW u \in Users
        PROVE  ~ Leaving(u)
    <3> SUFFICES ASSUME Leaving(u)
                 PROVE  FALSE
      OBVIOUS
    <3>1. PICK d \in Clients : \E i \in DOMAIN todo[d] : todo[d][i].j = "deleted" /\ todo[d][i].u = u
      BY DEF Leaving
    <3>0. PICK i \in DOMAIN todo[d] : todo[d][i].j = "deleted" /\ todo[d][i].u = u BY <3>1
    <3>2. d = c BY <1>4, <3>1 DEF SerialInv, OneAtATime
    <3>3. i = Len(todo[c]) /\ Ending(todo[c]).j = "deleted" /\ todo[c] # <<>>
      BY <3>0, <3>2 DEF ListsShaped, Shaped, Ending
    <3>4. Head(todo[c]).j \in LeaveKinds
      <4>1. \A k \in DOMAIN todo[c] : todo[c][k].j \in LeaveKinds
        BY <3>3 DEF ListsShaped, Shaped
      <4>2. 1 \in DOMAIN todo[c] /\ Head(todo[c]) = todo[c][1] BY <1>1, <3>3
      <4> QED BY <4>1, <4>2
    <3> QED BY <3>4 DEF Cut
  <2>4. AvatarHasPictures'
    <3>1. AvatarHasPictures BY <1>4 DEF SerialInv
    <3> QED BY <1>4, <2>3, <3>1 DEF AvatarHasPictures, Aside, Uploaded, PicturesOf
  <2> QED BY <2>2, <2>4
<1> QED BY <1>1, <1>3, <1>4


LEMMA HaltKeeps ==
    ASSUME StoreTyped, ListsShaped, NEW c \in Clients, todo[c] # <<>>, Halted(c), Aside
    PROVE  /\ todo' \in [Clients -> Seq(StoreJobs)] /\ ListsShaped'
           /\ plan.serial /\ SerialInv => OneAtATime' /\ HeadSafe' /\ FaceSafe' /\ AvatarHasPictures'
<1>1. <<>> \in Seq(JobsOf(Light)) /\ Cut(c, <<>>)
  BY DEF Halted, Stop, Cut
<1> QED BY <1>1, CutKeeps

-----------------------------------------------------------------------------
(* The lists the statements put together                                   *)

\* A finite set of jobs as a list of them.
LEMMA SetListed ==
    ASSUME NEW S, IsFiniteSet(S)
    PROVE  SetToSeq(S) \in Seq(S) /\ Len(SetToSeq(S)) = Cardinality(S) /\ \A e \in S : \E i \in DOMAIN SetToSeq(S) : SetToSeq(S)[i] = e
<1>1. PICK k \in Nat : k = Cardinality(S) /\ ExistsBijection(1 .. k, S)
  BY FS_CardinalityType
<1>2. PICK f \in Bijection(1 .. k, S) : TRUE
  BY <1>1 DEF ExistsBijection
<1>3. f \in [1 .. k -> S] /\ \A a, b \in 1 .. k : f[a] = f[b] => a = b
  BY <1>2 DEF Bijection, Injection, Surjection, IsInjective
<1>4. DOMAIN f = 1 .. k
  BY <1>3
<1>5. IsInjective(f)
  BY <1>3, <1>4 DEF IsInjective
<1>6. PICK g : g = SetToSeq(S) OBVIOUS
<1>7. g \in [1 .. k -> S] /\ IsInjective(g)
  BY <1>1, <1>3, <1>5, <1>6 DEF SetToSeq
<1>8. g \in Seq(S) /\ DOMAIN g = 1 .. k /\ Len(g) = k
  BY <1>7
<1>9. g \in Injection(1 .. k, S)
  BY <1>7 DEF Injection, IsInjective
<1>10. IsFiniteSet(1 .. k) /\ Cardinality(1 .. k) = k
  BY <1>1, FS_Interval
<1>11. g \in Surjection(1 .. k, S)
  BY <1>1, <1>9, <1>10, FS_Injection
<1>12. \A e \in S : \E i \in DOMAIN g : g[i] = e
  BY <1>8, <1>11 DEF Surjection
<1> QED BY <1>1, <1>6, <1>8, <1>12

\* The values of a function on a finite set.
LEMMA ValuesFinite ==
    ASSUME NEW S, IsFiniteSet(S), NEW f, f = [x \in S |-> f[x]]
    PROVE  IsFiniteSet({f[x] : x \in S})
<1>1. PICK T : T = {f[x] : x \in S} OBVIOUS
<1>2. f \in [S -> T] /\ \A y \in T : \E x \in S : f[x] = y
  BY <1>1
<1>3. f \in Surjection(S, T)
  BY <1>2 DEF Surjection
<1> QED BY <1>1, <1>3, FS_Surjection

LEMMA SlotsFinite == IsFiniteSet(Slots) /\ IsFiniteSet(Ids)
<1>1. IsFiniteSet(Profiles \X Types)
  BY StoreAssumption, FS_Product
<1>2. IsFiniteSet(1 .. MaxTex)
  BY StoreAssumption, FS_Interval
<1> QED BY <1>1, <1>2 DEF Slots, Ids

LEMMA RefreshListed ==
    ASSUME NEW p \in Profiles
    PROVE  Refresh(p) \in Seq(JobsOf(Light))
<1>1. [j |-> "props", p |-> p] \in JobsOf(Light) /\ [j |-> "touch", p |-> p] \in JobsOf(Light)
  BY DEF JobsOf, Light, StoreJobs, ProfileJob
<1> QED BY <1>1 DEF Refresh

LEMMA RefreshAllListed ==
    ASSUME NEW ps \in SUBSET Profiles
    PROVE  RefreshAll(ps) \in Seq(JobsOf(Light))
<1>1. IsFiniteSet(ps)
  BY StoreAssumption, FS_Subset
<1>2. PICK q : q = SetToSeq(ps) OBVIOUS
<1>3. PICK k \in Nat : k = Cardinality(ps)
  BY <1>1, FS_CardinalityType
<1>4. q \in Seq(ps) /\ Len(q) = k
  BY <1>1, <1>2, <1>3, SetListed
<1>5. ASSUME NEW i \in 1 .. 2 * k
      PROVE  [j |-> IF i % 2 = 1 THEN "props" ELSE "touch", p |-> q[(i + 1) \div 2]] \in JobsOf(Light)
  <2>1. (i + 1) \div 2 \in 1 .. k BY <1>3, <1>5
  <2>2. q[(i + 1) \div 2] \in Profiles BY <1>4, <2>1
  <2>3. PICK r \in Profiles : r = q[(i + 1) \div 2] BY <2>2
  <2>4. PICK z \in {"props", "touch"} : z = IF i % 2 = 1 THEN "props" ELSE "touch" OBVIOUS
  <2>5. [j |-> z, p |-> r] \in ProfileJob BY DEF ProfileJob
  <2>6. [j |-> z, p |-> r] \in JobsOf(Light) BY <2>4, <2>5 DEF JobsOf, Light, StoreJobs
  <2> QED BY <2>3, <2>4, <2>6
<1>6. PICK f : f = [i \in 1 .. 2 * k |-> [j |-> IF i % 2 = 1 THEN "props" ELSE "touch", p |-> q[(i + 1) \div 2]]]
  OBVIOUS
<1>7. f \in [1 .. 2 * k -> JobsOf(Light)]
  BY <1>5, <1>6
<1>8. 2 * k \in Nat
  BY <1>3
<1>9. f \in Seq(JobsOf(Light))
  BY <1>7, <1>8
<1>10. RefreshAll(ps) = f
  BY <1>2, <1>3, <1>6 DEF RefreshAll
<1> QED BY <1>9, <1>10

LEMMA ForgetListed ==
    ASSUME NEW h \in Hashes
    PROVE  Forget(h) \in Seq(JobsOf(Light)) /\ CleanBlob(h) \in Seq(JobsOf(Light))
<1>1. [j |-> "lookup", h |-> h] \in HashJob /\ [j |-> "blob", h |-> h] \in HashJob
  BY DEF HashJob
<1>2. [j |-> "lookup", h |-> h] \in JobsOf(Light) /\ [j |-> "blob", h |-> h] \in JobsOf(Light)
  BY <1>1 DEF JobsOf, Light, StoreJobs
<1> QED BY <1>2 DEF Forget, CleanBlob

LEMMA CleanAssetListed ==
    ASSUME NEW t \in Ids, NEW row \in Row
    PROVE  CleanAsset(t, row) \in Seq(JobsOf(Light))
<1>1. [j |-> "asset", t |-> t, snap |-> row] \in AssetJob
  BY DEF AssetJob
<1>2. [j |-> "asset", t |-> t, snap |-> row] \in JobsOf(Light)
  BY <1>1 DEF JobsOf, Light, StoreJobs
<1> QED BY <1>2 DEF CleanAsset

LEMMA RowHash == \A row \in Row : row.hash \in Hashes
BY DEF Row

LEMMA AfterDeleteListed ==
    ASSUME NEW row \in Row, NEW ps \in SUBSET Profiles
    PROVE  AfterDelete(row, ps) \in Seq(JobsOf(Light))
<1>1. PICK h \in Hashes : h = row.hash
  BY RowHash
<1>2. CleanBlob(h) \in Seq(JobsOf(Light)) /\ RefreshAll(ps) \in Seq(JobsOf(Light)) /\ Forget(h) \in Seq(JobsOf(Light))
  BY ForgetListed, RefreshAllListed
<1> QED BY <1>1, <1>2 DEF AfterDelete

LEMMA AfterReplaceListed ==
    ASSUME NEW x \in RcasJob
    PROVE  AfterReplace(x) \in Seq(JobsOf(Light))
<1>1. x.snap \in Row /\ x.ps \in SUBSET Profiles /\ x.h \in Hashes
  BY DEF RcasJob
<1>2. PICK h, k \in Hashes : h = x.snap.hash /\ k = x.h
  BY <1>1, RowHash
<1>3. PICK ps \in SUBSET Profiles : ps = x.ps
  BY <1>1
<1>4. /\ CleanBlob(h) \in Seq(JobsOf(Light)) /\ RefreshAll(ps) \in Seq(JobsOf(Light))
      /\ Forget(h) \in Seq(JobsOf(Light)) /\ Forget(k) \in Seq(JobsOf(Light))
  BY ForgetListed, RefreshAllListed
<1> QED BY <1>2, <1>3, <1>4 DEF AfterReplace

LEMMA LightIsPlain == JobsOf(Light) \subseteq JobsBut(Solo \cup FaceKinds)
BY DEF JobsOf, JobsBut, Light, Solo, FaceKinds, Lone

\* Statements put in front, one kind of list after the other.
LEMMA LightMoves ==
    ASSUME StoreTyped, NEW c \in Clients, todo[c] # <<>>, NEW N \in Seq(JobsOf(Light)), Then(c, N)
    PROVE  Moved(c)
<1>1. todo[c] \in Seq(StoreJobs) /\ Tail(todo[c]) \in Seq(StoreJobs) /\ Alike(Tail(todo[c]), Tail(todo[c]))
  BY DEF StoreTyped, Alike
<1>2. N \in Seq(StoreJobs)
  BY DEF JobsOf
<1>3. todo' = [todo EXCEPT ![c] = N \o Tail(todo[c])]
  BY DEF Then, StoreTyped
<1>4. Calm(Head(todo[c]).j, N)
  BY DEF Calm
<1>5. ASSUME NEW r, N = <<r>>
      PROVE  Safe(r)'
  <2>1. r \in JobsOf(Light) BY <1>5
  <2> QED BY <2>1 DEF JobsOf, Light, Safe
<1> QED BY <1>1, <1>2, <1>3, <1>4, <1>5 DEF Moved

LEMMA EmptyListed == <<>> \in Seq(JobsOf(Light))
OBVIOUS

LEMMA PlainMoves ==
    ASSUME StoreTyped, NEW c \in Clients, todo[c] # <<>>, NEW N \in Seq(JobsBut(Solo \cup FaceKinds)), Then(c, N),
           Head(todo[c]).j \notin LeaveKinds
    PROVE  Moved(c)
<1>1. todo[c] \in Seq(StoreJobs) /\ Tail(todo[c]) \in Seq(StoreJobs) /\ Alike(Tail(todo[c]), Tail(todo[c]))
  BY DEF StoreTyped, Alike
<1>2. N \in Seq(StoreJobs)
  BY DEF JobsBut
<1>3. todo' = [todo EXCEPT ![c] = N \o Tail(todo[c])]
  BY DEF Then, StoreTyped
<1>4. Calm(Head(todo[c]).j, N)
  BY DEF Calm
<1>5. ASSUME NEW r, N = <<r>>
      PROVE  Safe(r)'
  <2>1. r \in JobsBut(Solo \cup FaceKinds) BY <1>5
  <2> QED BY <2>1 DEF JobsBut, Solo, Safe
<1> QED BY <1>1, <1>2, <1>3, <1>4, <1>5 DEF Moved

LEMMA OneMoves ==
    ASSUME StoreTyped, NEW c \in Clients, todo[c] # <<>>, NEW r \in StoreJobs, Then(c, <<r>>), r.j \notin FaceKinds,
           Head(todo[c]).j \in LeaveKinds => r.j \in LeaveKinds, plan.serial => Safe(r)'
    PROVE  Moved(c)
<1>1. todo[c] \in Seq(StoreJobs) /\ Tail(todo[c]) \in Seq(StoreJobs) /\ Alike(Tail(todo[c]), Tail(todo[c]))
  BY DEF StoreTyped, Alike
<1>a. <<r>> \in Seq(StoreJobs) OBVIOUS
<1>2. PICK N \in Seq(StoreJobs) : N = <<r>>
  BY <1>a
<1>3. todo' = [todo EXCEPT ![c] = N \o Tail(todo[c])]
  BY <1>2 DEF Then, StoreTyped
<1>4. Calm(Head(todo[c]).j, N)
  BY <1>2 DEF Calm, JobsBut
<1>5. ASSUME plan.serial, NEW z, N = <<z>>
      PROVE  Safe(z)'
  <2>1. z = r BY <1>2, <1>5
  <2> QED BY <1>5, <2>1
<1> QED BY <1>1, <1>3, <1>4, <1>5 DEF Moved

LEMMA HeadTyped ==
    ASSUME StoreTyped, NEW c \in Clients, todo[c] # <<>>
    PROVE  Head(todo[c]) \in StoreJobs /\ Job(c) \in StoreJobs
BY DEF StoreTyped, Job

-----------------------------------------------------------------------------
(* The statements of TextureStore that only read                           *)

LEMMA AfterStoreListed ==
    ASSUME NEW x \in StoreJob, NEW t \in Ids
    PROVE  AfterStore(x, t) = <<>> \/ \E r \in StoreJobs : AfterStore(x, t) = <<r>> /\ r.j = "prev"
<1>1. CASE x.mode = "wardrobe"
  BY <1>1 DEF AfterStore
<1>2. CASE x.mode # "wardrobe"
  <2>1. x.mode \in BindModes /\ x.p \in Profiles /\ x.ty \in Types /\ x.h \in Hashes
    BY <1>2 DEF StoreJob
  <2>2. PICK p \in Profiles, ty \in Types, h \in Hashes, md \in BindModes : p = x.p /\ ty = x.ty /\ h = x.h /\ md = x.mode
    BY <2>1
  <2>3. <<p, ty>> \in Slots BY DEF Slots
  <2>4. [j |-> "prev", s |-> <<p, ty>>, t |-> t, h |-> h, mode |-> md] \in PrevJob
    BY <2>3 DEF PrevJob
  <2>5. AfterStore(x, t) = <<[j |-> "prev", s |-> <<p, ty>>, t |-> t, h |-> h, mode |-> md]>>
    BY <1>2, <2>2 DEF AfterStore
  <2> QED BY <2>4, <2>5 DEF StoreJobs
<1> QED BY <1>1, <1>2

LEMMA FindReusableMoves ==
    ASSUME PlaceInv, NEW c \in Clients, FindReusable(c)
    PROVE  Moved(c) \/ Halted(c)
<1>0. StoreTyped /\ Cascaded /\ SerialInv
  BY DEF PlaceInv
<1>1. PICK x \in StoreJobs : x = Job(c) /\ x = Head(todo[c]) /\ todo[c] # <<>> /\ x.j = "find"
  BY <1>0, HeadTyped DEF At, Job, FindReusable
<1>2. x \in StoreJob
  BY <1>1, JobKinds
<1>3. CASE Fingerprint(x.u, x.ty, x.src, x.h, x.m) # {}
  <2>1. PICK t \in Fingerprint(x.u, x.ty, x.src, x.h, x.m) : Then(c, AfterStore(x, t))
    BY <1>1, <1>3 DEF FindReusable
  <2>2. t \in Ids BY <2>1 DEF Fingerprint, Live
  <2>3. CASE AfterStore(x, t) = <<>> BY <1>0, <1>1, <2>1, <2>3, EmptyListed, LightMoves
  <2>4. CASE \E r \in StoreJobs : AfterStore(x, t) = <<r>> /\ r.j = "prev"
    <3>1. PICK r \in StoreJobs : AfterStore(x, t) = <<r>> /\ r.j = "prev" BY <2>4
    <3>2. r.j \notin FaceKinds /\ Head(todo[c]).j \notin LeaveKinds /\ Safe(r)'
      BY <1>1, <3>1 DEF LeaveKinds, FaceKinds, Lone, Safe
    <3> QED BY <1>0, <1>1, <2>1, <3>1, <3>2, OneMoves
  <2> QED BY <1>2, <2>2, <2>3, <2>4, AfterStoreListed
<1>4. CASE Fingerprint(x.u, x.ty, x.src, x.h, x.m) = {}
  <2>1. PICK r \in StoreJob : r = [x EXCEPT !.j = "put"] /\ r.j = "put"
    <3>1. [x EXCEPT !.j = "put"] \in StoreJob /\ [x EXCEPT !.j = "put"].j = "put"
      BY <1>2 DEF StoreJob
    <3> QED BY <3>1
  <2>2. Then(c, <<r>>) BY <1>1, <1>4, <2>1 DEF FindReusable
  <2>3. r \in StoreJobs /\ r.j \notin FaceKinds /\ Head(todo[c]).j \notin LeaveKinds /\ Safe(r)'
    BY <1>1, <2>1 DEF StoreJobs, LeaveKinds, FaceKinds, Lone, Safe
  <2> QED BY <1>0, <1>1, <2>2, <2>3, OneMoves
<1> QED BY <1>3, <1>4

LEMMA FindPreviousMoves ==
    ASSUME PlaceInv, NEW c \in Clients, FindPrevious(c)
    PROVE  Moved(c) \/ Halted(c)
<1>0. StoreTyped /\ Cascaded /\ SerialInv
  BY DEF PlaceInv
<1>1. PICK x \in StoreJobs : x = Job(c) /\ x = Head(todo[c]) /\ todo[c] # <<>> /\ x.j = "prev"
  BY <1>0, HeadTyped DEF At, Job, FindPrevious
<1>2. x \in PrevJob
  BY <1>1, JobKinds
<1>3. CASE ~ ShouldBind(x.mode, x.s)
  <2>1. PICK h \in Hashes : h = x.h BY <1>2 DEF PrevJob
  <2>2. Then(c, Forget(h)) BY <1>1, <1>3, <2>1 DEF FindPrevious
  <2> QED BY <1>0, <1>1, <2>2, ForgetListed, LightMoves
<1>4. CASE ShouldBind(x.mode, x.s)
  <2>1. PICK b : b = bind[x.s] OBVIOUS
  <2>2. PICK row : row = IF b = None THEN None ELSE rows[b] OBVIOUS
  <2>3. x.s \in Slots /\ x.t \in Ids /\ x.mode \in BindModes BY <1>2 DEF PrevJob
  <2>4. (b = None /\ row = None) \/ (b \in Ids /\ row \in Row)
    BY <1>0, <2>1, <2>2, <2>3 DEF StoreTyped, Cascaded
  <2>5. PICK r : r = [j |-> "upsert", s |-> x.s, t |-> x.t, mode |-> x.mode, prev |-> b, snap |-> row]
    OBVIOUS
  <2>6. r \in UpsertJob /\ r.j = "upsert" BY <2>3, <2>4, <2>5 DEF UpsertJob
  <2>7. Then(c, <<r>>) BY <1>1, <1>4, <2>1, <2>2, <2>5 DEF FindPrevious
  <2>8. r \in StoreJobs /\ r.j \notin FaceKinds /\ Head(todo[c]).j \notin LeaveKinds /\ Safe(r)'
    BY <1>1, <2>6 DEF StoreJobs, LeaveKinds, FaceKinds, Lone, Safe
  <2> QED BY <1>0, <1>1, <2>7, <2>8, OneMoves
<1> QED BY <1>3, <1>4

LEMMA BindReadMoves ==
    ASSUME PlaceInv, NEW c \in Clients, BindRead(c)
    PROVE  Moved(c) \/ Halted(c)
<1>0. StoreTyped /\ Cascaded /\ SerialInv
  BY DEF PlaceInv
<1>1. PICK x \in StoreJobs : x = Job(c) /\ x = Head(todo[c]) /\ todo[c] # <<>> /\ x.j = "bread"
  BY <1>0, HeadTyped DEF At, Job, BindRead
<1>2. x \in BindJob
  BY <1>1, JobKinds
<1>3. x.s \in Slots /\ x.t \in Ids
  BY <1>2 DEF BindJob
<1>4. CASE rows[x.t] = None \/ rows[x.t].owner # OwnerOf[x.s[1]] \/ rows[x.t].type # x.s[2]
  BY <1>1, <1>4 DEF BindRead, Halted, LeaveKinds
<1>5. CASE ~ (rows[x.t] = None \/ rows[x.t].owner # OwnerOf[x.s[1]] \/ rows[x.t].type # x.s[2])
  <2>1. rows[x.t] \in Row BY <1>0, <1>3, <1>5 DEF StoreTyped
  <2>2. rows[x.t].hash \in Hashes BY <2>1 DEF Row
  <2>3. PICK r : r = [j |-> "prev", s |-> x.s, t |-> x.t, h |-> rows[x.t].hash, mode |-> "bind"]
    OBVIOUS
  <2>4. r \in PrevJob /\ r.j = "prev" BY <1>3, <2>2, <2>3 DEF PrevJob, BindModes
  <2>5. Then(c, <<r>>) BY <1>1, <1>5, <2>3 DEF BindRead
  <2>6. r \in StoreJobs /\ r.j \notin FaceKinds /\ Head(todo[c]).j \notin LeaveKinds /\ Safe(r)'
    BY <1>1, <2>4 DEF StoreJobs, LeaveKinds, FaceKinds, Lone, Safe
  <2> QED BY <1>0, <1>1, <2>5, <2>6, OneMoves
<1> QED BY <1>4, <1>5

LEMMA ApplyPresetMoves ==
    ASSUME PlaceInv, NEW c \in Clients, ApplyPreset(c)
    PROVE  Moved(c) \/ Halted(c)
<1>0. StoreTyped /\ Cascaded /\ SerialInv
  BY DEF PlaceInv
<1>1. PICK x \in StoreJobs : x = Job(c) /\ x = Head(todo[c]) /\ todo[c] # <<>> /\ x.j = "preset"
  BY <1>0, HeadTyped DEF At, Job, ApplyPreset
<1>2. x \in PresetJob
  BY <1>1, JobKinds
<1> DEFINE t == IF x.s \in Slots THEN preset[x.s] ELSE None
<1>3. CASE t = None \/ rows[t].source # "local" \/ ~ rows[t].wardrobe
  <2>1. Then(c, <<>>) BY <1>1, <1>3 DEF ApplyPreset
  <2> QED BY <1>0, <1>1, <2>1, EmptyListed, LightMoves
<1>4. CASE ~ (t = None \/ rows[t].source # "local" \/ ~ rows[t].wardrobe)
  <2>1. x.s \in Slots /\ t \in Ids BY <1>0, <1>4 DEF StoreTyped
  <2>2. PICK r : r = [j |-> "bread", s |-> x.s, t |-> t] OBVIOUS
  <2>3. r \in BindJob /\ r.j = "bread" BY <2>1, <2>2 DEF BindJob
  <2>4. Then(c, <<r>>) BY <1>1, <1>4, <2>2 DEF ApplyPreset
  <2>5. r \in StoreJobs /\ r.j \notin FaceKinds /\ Head(todo[c]).j \notin LeaveKinds /\ Safe(r)'
    BY <1>1, <2>3 DEF StoreJobs, LeaveKinds, FaceKinds, Lone, Safe
  <2> QED BY <1>0, <1>1, <2>4, <2>5, OneMoves
<1> QED BY <1>3, <1>4

LEMMA ReplaceReadMoves ==
    ASSUME PlaceInv, NEW c \in Clients, ReplaceRead(c)
    PROVE  Moved(c) \/ Halted(c)
<1>0. StoreTyped /\ Cascaded /\ SerialInv
  BY DEF PlaceInv
<1>1. PICK x \in StoreJobs : x = Job(c) /\ x = Head(todo[c]) /\ todo[c] # <<>> /\ x.j = "rread"
  BY <1>0, HeadTyped DEF At, Job, ReplaceRead
<1>2. x \in RreadJob
  BY <1>1, JobKinds
<1> DEFINE row == rows[x.t]
           m == ModelFor(row.type, x.m)
<1>3. x.t \in Ids /\ x.h \in Hashes /\ x.m \in Models
  BY <1>2 DEF RreadJob
<1>4. CASE row = None \/ row.owner # x.u \/ ~ row.wardrobe \/ (row.hash = x.h /\ row.model = m)
  <2>1. Stop(c) BY <1>1, <1>4 DEF ReplaceRead
  <2> QED BY <1>1, <2>1 DEF Halted, LeaveKinds
<1>5. CASE ~ (row = None \/ row.owner # x.u \/ ~ row.wardrobe \/ (row.hash = x.h /\ row.model = m))
  <2>1. row \in Row BY <1>0, <1>3, <1>5 DEF StoreTyped
  <2>2. m \in Models BY <1>3 DEF ModelFor, Models
  <2>3. PICK k \in {"rput", "rlist"} : k = IF row.hash # x.h THEN "rput" ELSE "rlist" OBVIOUS
  <2>4. PICK r : r = [j |-> k, t |-> x.t, h |-> x.h, m |-> m, snap |-> row, n |-> 1] OBVIOUS
  <2>5. r \in RputJob /\ r.j \in {"rput", "rlist"}
    <3> HIDE DEF row, m
    <3> QED BY <1>3, <2>1, <2>2, <2>4 DEF RputJob
  <2>6. Then(c, <<r>>) BY <1>1, <1>5, <2>3, <2>4 DEF ReplaceRead
  <2>7. plan.serial => Safe(r)'
    <3> SUFFICES ASSUME plan.serial
                 PROVE  Safe(r)'
      OBVIOUS
    <3>1. row.hash \in blobs BY <1>0, <1>3, <1>5 DEF SerialInv, RowHasBlob, Live
    <3>2. r.j = "rlist" => r.h = row.hash BY <2>3, <2>4
    <3>3. blobs' = blobs BY DEF ReplaceRead
    <3> QED BY <2>5, <3>1, <3>2, <3>3 DEF Safe
  <2>8. r \in StoreJobs /\ r.j \notin FaceKinds /\ Head(todo[c]).j \notin LeaveKinds
    BY <1>1, <2>5 DEF StoreJobs, LeaveKinds, FaceKinds, Lone
  <2> QED BY <1>0, <1>1, <2>6, <2>7, <2>8, OneMoves
<1> QED BY <1>4, <1>5

LEMMA ReplaceListMoves ==
    ASSUME PlaceInv, NEW c \in Clients, ReplaceList(c)
    PROVE  Moved(c) \/ Halted(c)
<1>0. StoreTyped /\ Cascaded /\ SerialInv
  BY DEF PlaceInv
<1>1. PICK x \in StoreJobs : x = Job(c) /\ x = Head(todo[c]) /\ todo[c] # <<>> /\ x.j = "rlist"
  BY <1>0, HeadTyped DEF At, Job, ReplaceList
<1>2. x \in RputJob
  BY <1>1, JobKinds
<1>3. PICK ps : ps = ProfilesOf(BoundTo(x.t)) OBVIOUS
<1>4. ps \in SUBSET Profiles
  BY <1>3 DEF ProfilesOf, BoundTo, Slots
<1>5. PICK r : r = [j |-> "rcas", t |-> x.t, h |-> x.h, m |-> x.m, snap |-> x.snap, n |-> x.n, ps |-> ps]
  OBVIOUS
<1>6. r \in RcasJob /\ r.j = "rcas" /\ r.h = x.h
  BY <1>2, <1>4, <1>5 DEF RcasJob, RputJob
<1>7. Then(c, <<r>>)
  BY <1>1, <1>3, <1>5 DEF ReplaceList
<1>8. plan.serial => Safe(r)'
  <2> SUFFICES ASSUME plan.serial
               PROVE  Safe(r)'
    OBVIOUS
  <2>1. x.h \in blobs BY <1>0, <1>1 DEF SerialInv, HeadSafe, Safe
  <2>2. blobs' = blobs BY DEF ReplaceList
  <2> QED BY <1>6, <2>1, <2>2 DEF Safe
<1>9. r \in StoreJobs /\ r.j \notin FaceKinds /\ Head(todo[c]).j \notin LeaveKinds
  BY <1>1, <1>6 DEF StoreJobs, LeaveKinds, FaceKinds, Lone
<1> QED BY <1>0, <1>1, <1>7, <1>8, <1>9, OneMoves

LEMMA ReplaceRereadMoves ==
    ASSUME PlaceInv, NEW c \in Clients, ReplaceReread(c)
    PROVE  Moved(c) \/ Halted(c)
<1>0. StoreTyped /\ Cascaded /\ SerialInv
  BY DEF PlaceInv
<1>1. PICK x \in StoreJobs : x = Job(c) /\ x = Head(todo[c]) /\ todo[c] # <<>> /\ x.j = "rreread"
  BY <1>0, HeadTyped DEF At, Job, ReplaceReread
<1>2. x \in RcasJob
  BY <1>1, JobKinds
<1> DEFINE row == rows[x.t]
<1>3. x.t \in Ids /\ x.h \in Hashes /\ x.n \in Nat /\ x.ps \in SUBSET Profiles /\ x.m \in Models
  BY <1>2 DEF RcasJob
<1>4. PICK h \in Hashes : h = x.h
  BY <1>3
<1>5. CASE row = None \/ (~ (row.hash = x.h /\ row.model = x.m) /\ x.n >= Attempts)
  <2>1. Then(c, CleanBlob(h)) BY <1>1, <1>4, <1>5 DEF ReplaceReread
  <2> QED BY <1>0, <1>1, <2>1, ForgetListed, LightMoves
<1>6. CASE row # None /\ row.hash = x.h /\ row.model = x.m
  <2>1. Then(c, AfterReplace(x)) BY <1>1, <1>6 DEF ReplaceReread
  <2>2. AfterReplace(x) \in Seq(JobsOf(Light)) BY <1>2, AfterReplaceListed
  <2> QED BY <1>0, <1>1, <2>1, <2>2, LightMoves
<1>7. CASE row # None /\ ~ (row.hash = x.h /\ row.model = x.m) /\ ~ (x.n >= Attempts)
  <2>1. row \in Row BY <1>0, <1>3, <1>7 DEF StoreTyped
  <2>2. PICK r : r = [x EXCEPT !.j = "rcas", !.snap = row, !.n = @ + 1] OBVIOUS
  <2>3. r \in RcasJob /\ r.j = "rcas" /\ r.h = x.h
    <3> HIDE DEF row
    <3>1. PICK n \in Nat : n = x.n + 1 BY <1>3
    <3>2. PICK z \in Row : z = row BY <2>1
    <3>3. r = [x EXCEPT !.j = "rcas", !.snap = z, !.n = n] BY <2>2, <3>1, <3>2
    <3> QED BY <1>2, <3>3 DEF RcasJob
  <2>4. Then(c, <<r>>) BY <1>1, <1>7, <2>2 DEF ReplaceReread
  <2>5. plan.serial => Safe(r)'
    <3> SUFFICES ASSUME plan.serial
                 PROVE  Safe(r)'
      OBVIOUS
    <3>1. x.h \in blobs BY <1>0, <1>1 DEF SerialInv, HeadSafe, Safe
    <3>2. blobs' = blobs BY DEF ReplaceReread
    <3> QED BY <2>3, <3>1, <3>2 DEF Safe
  <2>6. r \in StoreJobs /\ r.j \notin FaceKinds /\ Head(todo[c]).j \notin LeaveKinds
    BY <1>1, <2>3 DEF StoreJobs, LeaveKinds, FaceKinds, Lone
  <2> QED BY <1>0, <1>1, <2>4, <2>5, <2>6, OneMoves
<1> QED BY <1>5, <1>6, <1>7

LEMMA MetadataReadMoves ==
    ASSUME PlaceInv, NEW c \in Clients, MetadataRead(c)
    PROVE  Moved(c) \/ Halted(c)
<1>0. StoreTyped /\ Cascaded /\ SerialInv
  BY DEF PlaceInv
<1>1. PICK x \in StoreJobs : x = Job(c) /\ x = Head(todo[c]) /\ todo[c] # <<>> /\ x.j = "mread"
  BY <1>0, HeadTyped DEF At, Job, MetadataRead
<1>2. x \in MreadJob
  BY <1>1, JobKinds
<1> DEFINE row == rows[x.t]
<1>3. x.t \in Ids /\ x.m \in Models
  BY <1>2 DEF MreadJob
<1>4. CASE row = None \/ row.owner # x.u \/ ~ row.wardrobe
  <2>1. Stop(c) BY <1>1, <1>4 DEF MetadataRead
  <2> QED BY <1>1, <2>1 DEF Halted, LeaveKinds
<1>5. CASE ~ (row = None \/ row.owner # x.u \/ ~ row.wardrobe)
  <2>1. row \in Row BY <1>0, <1>3, <1>5 DEF StoreTyped
  <2>2. PICK m \in Models : m = ModelFor(row.type, x.m) BY <1>3 DEF ModelFor, Models
  <2>3. PICK r : r = [j |-> "mwrite", t |-> x.t, m |-> m, snap |-> row] OBVIOUS
  <2>4. r \in MwriteJob /\ r.j = "mwrite"
    <3> HIDE DEF row
    <3> QED BY <1>3, <2>1, <2>2, <2>3 DEF MwriteJob
  <2>5. Then(c, <<r>>) BY <1>1, <1>5, <2>2, <2>3 DEF MetadataRead
  <2>6. r \in StoreJobs /\ r.j \notin FaceKinds /\ Head(todo[c]).j \notin LeaveKinds /\ Safe(r)'
    BY <1>1, <2>4 DEF StoreJobs, LeaveKinds, FaceKinds, Lone, Safe
  <2> QED BY <1>0, <1>1, <2>5, <2>6, OneMoves
<1> QED BY <1>4, <1>5

LEMMA MetadataListMoves ==
    ASSUME PlaceInv, NEW c \in Clients, MetadataList(c)
    PROVE  Moved(c) \/ Halted(c)
<1>0. StoreTyped /\ Cascaded /\ SerialInv
  BY DEF PlaceInv
<1>1. PICK x \in StoreJobs : x = Job(c) /\ x = Head(todo[c]) /\ todo[c] # <<>> /\ x.j = "mlist"
  BY <1>0, HeadTyped DEF At, Job, MetadataList
<1>2. x \in TexJob
  BY <1>1, JobKinds
<1>3. PICK ps : ps = ProfilesOf(BoundTo(x.t)) OBVIOUS
<1>4. ps \in SUBSET Profiles
  BY <1>3 DEF ProfilesOf, BoundTo, Slots
<1>5. Then(c, RefreshAll(ps))
  BY <1>1, <1>3 DEF MetadataList
<1> QED BY <1>0, <1>1, <1>4, <1>5, RefreshAllListed, LightMoves

LEMMA CopyReadMoves ==
    ASSUME PlaceInv, NEW c \in Clients, CopyRead(c)
    PROVE  Moved(c) \/ Halted(c)
<1>0. StoreTyped /\ Cascaded /\ SerialInv
  BY DEF PlaceInv
<1>1. PICK x \in StoreJobs : x = Job(c) /\ x = Head(todo[c]) /\ todo[c] # <<>> /\ x.j = "cread"
  BY <1>0, HeadTyped DEF At, Job, CopyRead
<1>2. x \in OwnJob
  BY <1>1, JobKinds
<1>3. x.t \in Ids /\ x.u \in Users
  BY <1>2 DEF OwnJob
<1>4. CASE rows[x.t] = None \/ ~ rows[x.t].wardrobe
  <2>1. Stop(c) BY <1>1, <1>4 DEF CopyRead
  <2> QED BY <1>1, <2>1 DEF Halted, LeaveKinds
<1>5. CASE ~ (rows[x.t] = None \/ ~ rows[x.t].wardrobe)
  <2>1. PICK row \in Row : row = rows[x.t] BY <1>0, <1>3, <1>5 DEF StoreTyped
  <2>2. PICK r : r = [j |-> "ccheck", u |-> x.u, t |-> x.t, snap |-> row] OBVIOUS
  <2>3. r \in CopyJob /\ r.j = "ccheck" /\ r.snap = row BY <1>3, <2>1, <2>2 DEF CopyJob
  <2>4. Then(c, <<r>>) BY <1>1, <1>5, <2>1, <2>2 DEF CopyRead
  <2>5. plan.serial => Safe(r)'
    <3>1. plan.serial => row.hash \in blobs
      BY <1>0, <1>3, <1>5, <2>1 DEF SerialInv, RowHasBlob, Live
    <3>2. blobs' = blobs BY DEF CopyRead
    <3> QED BY <2>3, <3>1, <3>2 DEF Safe
  <2>6. r \in StoreJobs /\ r.j \notin FaceKinds /\ Head(todo[c]).j \notin LeaveKinds
    BY <1>1, <2>3 DEF StoreJobs, LeaveKinds, FaceKinds, Lone
  <2> QED BY <1>0, <1>1, <2>4, <2>5, <2>6, OneMoves
<1> QED BY <1>4, <1>5

LEMMA CopyCheckMoves ==
    ASSUME PlaceInv, NEW c \in Clients, CopyCheck(c)
    PROVE  Moved(c) \/ Halted(c)
<1>0. StoreTyped /\ Cascaded /\ SerialInv
  BY DEF PlaceInv
<1>1. PICK x \in StoreJobs : x = Job(c) /\ x = Head(todo[c]) /\ todo[c] # <<>> /\ x.j = "ccheck"
  BY <1>0, HeadTyped DEF At, Job, CopyCheck
<1>2. x \in CopyJob
  BY <1>1, JobKinds
<1>3. CASE Fingerprint(x.u, x.snap.type, "local", x.snap.hash, x.snap.model) # {}
  <2>1. Stop(c) BY <1>1, <1>3 DEF CopyCheck
  <2> QED BY <1>1, <2>1 DEF Halted, LeaveKinds
<1>4. CASE Fingerprint(x.u, x.snap.type, "local", x.snap.hash, x.snap.model) = {}
  <2>1. PICK r : r = [x EXCEPT !.j = "ccreate"] OBVIOUS
  <2>2. r \in CopyJob /\ r.j = "ccreate" /\ r.snap = x.snap BY <1>2, <2>1 DEF CopyJob
  <2>3. Then(c, <<r>>) BY <1>1, <1>4, <2>1 DEF CopyCheck
  <2>4. plan.serial => Safe(r)'
    <3>1. plan.serial => x.snap.hash \in blobs BY <1>0, <1>1 DEF SerialInv, HeadSafe, Safe
    <3>2. blobs' = blobs BY DEF CopyCheck
    <3> QED BY <2>2, <3>1, <3>2 DEF Safe
  <2>5. r \in StoreJobs /\ r.j \notin FaceKinds /\ Head(todo[c]).j \notin LeaveKinds
    BY <1>1, <2>2 DEF StoreJobs, LeaveKinds, FaceKinds, Lone
  <2> QED BY <1>0, <1>1, <2>3, <2>4, <2>5, OneMoves
<1> QED BY <1>3, <1>4

\* A list with one job for each element of a finite set.
LEMMA ListOfEach ==
    ASSUME NEW S, IsFiniteSet(S), NEW f, f = [x \in S |-> f[x]], NEW K, \A x \in S : f[x] \in K
    PROVE  SetToSeq({f[x] : x \in S}) \in Seq(K)
<1>1. PICK T : T = {f[x] : x \in S} OBVIOUS
<1>2. SetToSeq(T) \in Seq(T) /\ T \subseteq K
  BY <1>1, ValuesFinite, SetListed
<1> QED BY <1>1, <1>2

LEMMA WardrobeListMoves ==
    ASSUME PlaceInv, NEW c \in Clients, WardrobeList(c)
    PROVE  Moved(c) \/ Halted(c)
<1>0. StoreTyped /\ Cascaded /\ SerialInv
  BY DEF PlaceInv
<1>1. PICK x \in StoreJobs : x = Job(c) /\ x = Head(todo[c]) /\ todo[c] # <<>> /\ x.j = "wlist"
  BY <1>0, HeadTyped DEF At, Job, WardrobeList
<1>2. x \in OwnJob
  BY <1>1, JobKinds
<1>3. PICK ps : ps = ProfilesOf(BoundTo(x.t)) OBVIOUS
<1>4. ps \in SUBSET Profiles
  BY <1>3 DEF ProfilesOf, BoundTo, Slots
<1>5. PICK r : r = [j |-> "wfind", u |-> x.u, t |-> x.t, ps |-> ps] OBVIOUS
<1>6. r \in WfindJob /\ r.j = "wfind"
  BY <1>2, <1>4, <1>5 DEF WfindJob, OwnJob
<1>7. Then(c, <<r>>)
  BY <1>1, <1>3, <1>5 DEF WardrobeList
<1>8. r \in StoreJobs /\ r.j \notin FaceKinds /\ r.j \in LeaveKinds /\ Safe(r)'
  BY <1>1, <1>6 DEF StoreJobs, LeaveKinds, FaceKinds, Lone, Safe
<1> QED BY <1>0, <1>1, <1>7, <1>8, OneMoves

LEMMA WardrobeFindMoves ==
    ASSUME PlaceInv, NEW c \in Clients, WardrobeFind(c)
    PROVE  Moved(c) \/ Halted(c)
<1>0. StoreTyped /\ Cascaded /\ SerialInv
  BY DEF PlaceInv
<1>1. PICK x \in StoreJobs : x = Job(c) /\ x = Head(todo[c]) /\ todo[c] # <<>> /\ x.j = "wfind"
  BY <1>0, HeadTyped DEF At, Job, WardrobeFind
<1>2. x \in WfindJob
  BY <1>1, JobKinds
<1> DEFINE row == rows[x.t]
<1>3. CASE row = None \/ (x.u # None /\ row.owner # x.u) \/ (x.u = None /\ ~ row.wardrobe)
  <2>1. Then(c, <<>>) BY <1>1, <1>3 DEF WardrobeFind
  <2> QED BY <1>0, <1>1, <2>1, EmptyListed, LightMoves
<1>4. CASE ~ (row = None \/ (x.u # None /\ row.owner # x.u) \/ (x.u = None /\ ~ row.wardrobe))
  <2>1. PICK z \in Row : z = row BY <1>0, <1>2, <1>4 DEF StoreTyped, WfindJob
  <2>2. PICK r : r = [j |-> "wdel", t |-> x.t, ps |-> x.ps, snap |-> z] OBVIOUS
  <2>3. r \in WdelJob /\ r.j = "wdel" BY <1>2, <2>1, <2>2 DEF WdelJob, WfindJob
  <2>4. Then(c, <<r>>) BY <1>1, <1>4, <2>1, <2>2 DEF WardrobeFind
  <2>5. r \in StoreJobs /\ r.j \notin FaceKinds /\ r.j \in LeaveKinds /\ Safe(r)'
    BY <1>1, <2>3 DEF StoreJobs, LeaveKinds, FaceKinds, Lone, Safe
  <2> QED BY <1>0, <1>1, <2>4, <2>5, OneMoves
<1> QED BY <1>3, <1>4

LEMMA AdminReadMoves ==
    ASSUME PlaceInv, NEW c \in Clients, AdminRead(c)
    PROVE  Moved(c) \/ Halted(c)
<1>0. StoreTyped /\ Cascaded /\ SerialInv
  BY DEF PlaceInv
<1>1. PICK x \in StoreJobs : x = Job(c) /\ x = Head(todo[c]) /\ todo[c] # <<>> /\ x.j = "aread"
  BY <1>0, HeadTyped DEF At, Job, AdminRead
<1>2. x \in TexJob
  BY <1>1, JobKinds
<1>3. CASE rows[x.t] = None \/ ~ rows[x.t].wardrobe
  <2>1. Stop(c) BY <1>1, <1>3 DEF AdminRead
  <2> QED BY <1>1, <2>1 DEF Halted, LeaveKinds
<1>4. CASE ~ (rows[x.t] = None \/ ~ rows[x.t].wardrobe)
  <2>1. PICK r : r = [j |-> "aunbind", t |-> x.t] OBVIOUS
  <2>2. r \in TexJob /\ r.j = "aunbind" BY <1>2, <2>1 DEF TexJob
  <2>3. Then(c, <<r>>) BY <1>1, <1>4, <2>1 DEF AdminRead
  <2>4. r \in StoreJobs /\ r.j \notin FaceKinds /\ Head(todo[c]).j \notin LeaveKinds /\ Safe(r)'
    BY <1>1, <2>2 DEF StoreJobs, LeaveKinds, FaceKinds, Lone, Safe
  <2> QED BY <1>0, <1>1, <2>3, <2>4, OneMoves
<1> QED BY <1>3, <1>4

LEMMA UserListMoves ==
    ASSUME PlaceInv, NEW c \in Clients, UserList(c)
    PROVE  Moved(c) \/ Halted(c)
<1>0. StoreTyped /\ Cascaded /\ SerialInv
  BY DEF PlaceInv
<1>1. PICK x \in StoreJobs : x = Job(c) /\ x = Head(todo[c]) /\ todo[c] # <<>> /\ x.j = "ulist"
  BY <1>0, HeadTyped DEF At, Job, UserList
<1>2. x \in UserJob
  BY <1>1, JobKinds
<1>3. PICK own : own = {t \in Live : rows[t].owner = x.u /\ rows[t].wardrobe} OBVIOUS
<1>4. IsFiniteSet(own) /\ own \subseteq Ids
  BY <1>3, SlotsFinite, FS_Subset DEF Live
<1>5. PICK u \in Users : u = x.u
  BY <1>2 DEF UserJob
<1>6. PICK f : f = [t \in own |-> [j |-> "wlist", u |-> u, t |-> t]] OBVIOUS
<1>7. \A t \in own : f[t] \in JobsOf(Light) /\ f[t] = [j |-> "wlist", u |-> u, t |-> t]
  <2>1. \A t \in own : [j |-> "wlist", u |-> u, t |-> t] \in OwnJob BY <1>4 DEF OwnJob
  <2>2. \A t \in own : [j |-> "wlist", u |-> u, t |-> t] \in JobsOf(Light)
    BY <2>1 DEF StoreJobs, JobsOf, Light
  <2> QED BY <1>6, <2>2
<1>8. PICK N : N = SetToSeq({f[t] : t \in own}) OBVIOUS
<1>9. N \in Seq(JobsOf(Light))
  BY <1>4, <1>6, <1>7, <1>8, ListOfEach
<1>10. N = SetToSeq({[j |-> "wlist", u |-> u, t |-> t] : t \in own})
  <2>1. {f[t] : t \in own} = {[j |-> "wlist", u |-> u, t |-> t] : t \in own} BY <1>6
  <2> QED BY <1>8, <2>1
<1>11. Then(c, N)
  BY <1>1, <1>3, <1>5, <1>10 DEF UserList
<1> QED BY <1>0, <1>1, <1>9, <1>11, LightMoves

LEMMA UnbindFindMoves ==
    ASSUME PlaceInv, NEW c \in Clients, UnbindFind(c)
    PROVE  Moved(c) \/ Halted(c)
<1>0. StoreTyped /\ Cascaded /\ SerialInv
  BY DEF PlaceInv
<1>1. PICK x \in StoreJobs : x = Job(c) /\ x = Head(todo[c]) /\ todo[c] # <<>> /\ x.j = "ufind"
  BY <1>0, HeadTyped DEF At, Job, UnbindFind
<1>2. x \in UfindJob
  BY <1>1, JobKinds
<1>3. x.s \in Slots
  BY <1>2 DEF UfindJob
<1>4. CASE bind[x.s] = None
  <2>1. Then(c, <<>>) BY <1>1, <1>4 DEF UnbindFind
  <2> QED BY <1>0, <1>1, <2>1, EmptyListed, LightMoves
<1>5. CASE bind[x.s] # None
  <2>1. PICK t \in Ids : t = bind[x.s] BY <1>0, <1>3, <1>5 DEF StoreTyped
  <2>2. PICK z \in Row : z = rows[t] BY <1>0, <1>3, <1>5, <2>1 DEF StoreTyped, Cascaded
  <2>3. PICK r : r = [j |-> "udel", s |-> x.s, all |-> x.all, t |-> t, snap |-> z] OBVIOUS
  <2>4. r \in UdelJob /\ r.j = "udel" BY <1>2, <2>3 DEF UdelJob, UfindJob
  <2>5. Then(c, <<r>>) BY <1>1, <1>5, <2>1, <2>2, <2>3 DEF UnbindFind
  <2>6. r \in StoreJobs /\ r.j \notin FaceKinds /\ r.j \in LeaveKinds /\ Safe(r)'
    BY <1>1, <2>4 DEF StoreJobs, LeaveKinds, FaceKinds, Lone, Safe
  <2> QED BY <1>0, <1>1, <2>5, <2>6, OneMoves
<1> QED BY <1>4, <1>5

LEMMA OfficialFindMoves ==
    ASSUME PlaceInv, NEW c \in Clients, OfficialFind(c)
    PROVE  Moved(c) \/ Halted(c)
<1>0. StoreTyped /\ Cascaded /\ SerialInv
  BY DEF PlaceInv
<1>1. PICK x \in StoreJobs : x = Job(c) /\ x = Head(todo[c]) /\ todo[c] # <<>> /\ x.j = "ofind"
  BY <1>0, HeadTyped DEF At, Job, OfficialFind
<1>2. x \in OfindJob
  BY <1>1, JobKinds
<1>3. CASE bind[x.s] = None \/ rows[bind[x.s]].source # "mojang"
  <2>1. Then(c, <<>>) BY <1>1, <1>3 DEF OfficialFind
  <2> QED BY <1>0, <1>1, <2>1, EmptyListed, LightMoves
<1>4. CASE ~ (bind[x.s] = None \/ rows[bind[x.s]].source # "mojang")
  <2>1. PICK r : r = [j |-> "ufind", s |-> x.s, all |-> FALSE] OBVIOUS
  <2>2. r \in UfindJob /\ r.j = "ufind" BY <1>2, <2>1 DEF UfindJob, OfindJob
  <2>3. Then(c, <<r>>) BY <1>1, <1>4, <2>1 DEF OfficialFind
  <2>4. r \in StoreJobs /\ r.j \notin FaceKinds /\ r.j \in LeaveKinds /\ Safe(r)'
    BY <1>1, <2>2 DEF StoreJobs, LeaveKinds, FaceKinds, Lone, Safe
  <2> QED BY <1>0, <1>1, <2>3, <2>4, OneMoves
<1> QED BY <1>3, <1>4

LEMMA UnbindsListedAll ==
    ASSUME NEW S \in SUBSET Slots
    PROVE  SetToSeq({[j |-> "ufind", s |-> s, all |-> TRUE] : s \in S}) \in Seq(JobsOf(Light))
<1>1. IsFiniteSet(S)
  BY SlotsFinite, FS_Subset
<1>2. PICK f : f = [s \in S |-> [j |-> "ufind", s |-> s, all |-> TRUE]] OBVIOUS
<1>3. \A s \in S : f[s] \in JobsOf(Light)
  <2>1. \A s \in S : [j |-> "ufind", s |-> s, all |-> TRUE] \in UfindJob BY DEF UfindJob
  <2> QED BY <1>2, <2>1 DEF StoreJobs, JobsOf, Light
<1>4. {f[s] : s \in S} = {[j |-> "ufind", s |-> s, all |-> TRUE] : s \in S}
  BY <1>2
<1>5. f = [s \in S |-> f[s]]
  BY <1>2
<1>6. PICK K : K = JobsOf(Light) OBVIOUS
<1>7. SetToSeq({f[s] : s \in S}) \in Seq(K)
  BY <1>1, <1>3, <1>5, <1>6, ListOfEach
<1> QED BY <1>4, <1>6, <1>7

LEMMA UnbindsListedOne ==
    ASSUME NEW S \in SUBSET Slots
    PROVE  SetToSeq({[j |-> "ufind", s |-> s, all |-> FALSE] : s \in S}) \in Seq(JobsOf(Light))
<1>1. IsFiniteSet(S)
  BY SlotsFinite, FS_Subset
<1>2. PICK f : f = [s \in S |-> [j |-> "ufind", s |-> s, all |-> FALSE]] OBVIOUS
<1>3. \A s \in S : f[s] \in JobsOf(Light)
  <2>1. \A s \in S : [j |-> "ufind", s |-> s, all |-> FALSE] \in UfindJob BY DEF UfindJob
  <2> QED BY <1>2, <2>1 DEF StoreJobs, JobsOf, Light
<1>4. {f[s] : s \in S} = {[j |-> "ufind", s |-> s, all |-> FALSE] : s \in S}
  BY <1>2
<1>5. f = [s \in S |-> f[s]]
  BY <1>2
<1>6. PICK K : K = JobsOf(Light) OBVIOUS
<1>7. SetToSeq({f[s] : s \in S}) \in Seq(K)
  BY <1>1, <1>3, <1>5, <1>6, ListOfEach
<1> QED BY <1>4, <1>6, <1>7

LEMMA ProfileListMoves ==
    ASSUME PlaceInv, NEW c \in Clients, ProfileList(c)
    PROVE  Moved(c) \/ Halted(c)
<1>0. StoreTyped /\ Cascaded /\ SerialInv
  BY DEF PlaceInv
<1>1. PICK x \in StoreJobs : x = Job(c) /\ x = Head(todo[c]) /\ todo[c] # <<>> /\ x.j = "plist"
  BY <1>0, HeadTyped DEF At, Job, ProfileList
<1>2. x \in ProfileJob
  BY <1>1, JobKinds
<1>3. PICK S \in SUBSET Slots : S = {s \in Slots : s[1] = x.p /\ bind[s] # None} OBVIOUS
<1>4. PICK A : A = SetToSeq({[j |-> "ufind", s |-> s, all |-> TRUE] : s \in S}) OBVIOUS
<1>5. A \in Seq(JobsOf(Light))
  BY <1>4, UnbindsListedAll
<1>6. PICK r : r = [j |-> "purged", p |-> x.p, due |-> FALSE] OBVIOUS
<1>7. r \in PurgedJob /\ r.j = "purged"
  BY <1>2, <1>6 DEF PurgedJob, ProfileJob
<1>8. r \in JobsOf(Light)
  BY <1>7 DEF StoreJobs, JobsOf, Light
<1>a. A \o <<r>> \in Seq(JobsOf(Light))
  BY <1>5, <1>8
<1>9. PICK N \in Seq(JobsOf(Light)) : N = A \o <<r>>
  BY <1>a
<1>10. Then(c, N)
  BY <1>1, <1>3, <1>4, <1>6, <1>9 DEF ProfileList
<1> QED BY <1>0, <1>1, <1>10, LightMoves

LEMMA ProfileEndMoves ==
    ASSUME PlaceInv, NEW c \in Clients, ProfileEnd(c)
    PROVE  Moved(c) \/ Halted(c)
<1>0. StoreTyped /\ Cascaded /\ SerialInv
  BY DEF PlaceInv
<1>1. PICK x \in StoreJobs : x = Job(c) /\ x = Head(todo[c]) /\ todo[c] # <<>> /\ x.j = "purged"
  BY <1>0, HeadTyped DEF At, Job, ProfileEnd
<1>2. x \in PurgedJob
  BY <1>1, JobKinds
<1>3. PICK p \in Profiles : p = x.p
  BY <1>2 DEF PurgedJob
<1>4. PICK N : N = IF x.due THEN Refresh(p) ELSE <<>> OBVIOUS
<1>5. N \in Seq(JobsOf(Light))
  BY <1>4, RefreshListed, EmptyListed
<1>6. Then(c, N)
  BY <1>1, <1>3, <1>4 DEF ProfileEnd
<1> QED BY <1>0, <1>1, <1>5, <1>6, LightMoves

LEMMA HashListMoves ==
    ASSUME PlaceInv, NEW c \in Clients, HashList(c)
    PROVE  Moved(c) \/ Halted(c)
<1>0. StoreTyped /\ Cascaded /\ SerialInv
  BY DEF PlaceInv
<1>1. PICK x \in StoreJobs : x = Job(c) /\ x = Head(todo[c]) /\ todo[c] # <<>> /\ x.j = "hlist"
  BY <1>0, HeadTyped DEF At, Job, HashList
<1>2. x \in HashJob
  BY <1>1, JobKinds
<1>3. PICK S \in SUBSET Slots : S = {s \in Slots : bind[s] # None /\ rows[bind[s]].hash = x.h}
  OBVIOUS
<1>4. PICK N : N = SetToSeq({[j |-> "ufind", s |-> s, all |-> FALSE] : s \in S}) OBVIOUS
<1>5. N \in Seq(JobsOf(Light))
  BY <1>4, UnbindsListedOne
<1>6. Then(c, N)
  BY <1>1, <1>3, <1>4 DEF HashList
<1> QED BY <1>0, <1>1, <1>5, <1>6, LightMoves

LEMMA RegisterListMoves ==
    ASSUME PlaceInv, NEW c \in Clients, RegisterList(c)
    PROVE  Moved(c) \/ Halted(c)
<1>0. StoreTyped /\ Cascaded /\ SerialInv
  BY DEF PlaceInv
<1>1. PICK x \in StoreJobs : x = Job(c) /\ x = Head(todo[c]) /\ todo[c] # <<>> /\ x.j = "glist"
  BY <1>0, HeadTyped DEF At, Job, RegisterList
<1>2. x \in StoreJobs
  BY <1>1, JobKinds
<1>3. PICK S \in SUBSET Slots : S = {s \in Slots : bind[s] # None /\ ~ rows[bind[s]].wardrobe}
  OBVIOUS
<1>4. IsFiniteSet(S)
  BY SlotsFinite, FS_Subset
<1>5. PICK f : f = [s \in S |-> [j |-> "gfind", s |-> s, t |-> bind[s], snap |-> rows[bind[s]]]]
  OBVIOUS
<1>6. \A s \in S : f[s] \in JobsBut(Solo \cup FaceKinds)
  <2> SUFFICES ASSUME NEW s \in S
               PROVE  f[s] \in JobsBut(Solo \cup FaceKinds)
    OBVIOUS
  <2>1. bind[s] \in Ids /\ rows[bind[s]] \in Row /\ s \in Slots
    BY <1>0, <1>3 DEF StoreTyped, Cascaded
  <2>2. f[s] \in RegisterJob /\ f[s].j = "gfind" BY <1>5, <2>1 DEF RegisterJob
  <2> QED BY <2>2 DEF StoreJobs, JobsBut, Solo, FaceKinds, Lone
<1>7. PICK N : N = SetToSeq({f[s] : s \in S}) OBVIOUS
<1>8. N \in Seq(JobsBut(Solo \cup FaceKinds))
  <2>1. f = [s \in S |-> f[s]] BY <1>5
  <2>2. PICK K : K = JobsBut(Solo \cup FaceKinds) OBVIOUS
  <2>3. N \in Seq(K) BY <1>4, <1>6, <1>7, <2>1, <2>2, ListOfEach
  <2> QED BY <2>2, <2>3
<1>9. {f[s] : s \in S} = {[j |-> "gfind", s |-> s, t |-> bind[s], snap |-> rows[bind[s]]] : s \in S}
  BY <1>5
<1>10. Then(c, N)
  BY <1>1, <1>3, <1>7, <1>9 DEF RegisterList
<1> QED BY <1>0, <1>1, <1>8, <1>10, PlainMoves DEF LeaveKinds

LEMMA RegisterFindMoves ==
    ASSUME PlaceInv, NEW c \in Clients, RegisterFind(c)
    PROVE  Moved(c) \/ Halted(c)
<1>0. StoreTyped /\ Cascaded /\ SerialInv
  BY DEF PlaceInv
<1>1. PICK x \in StoreJobs : x = Job(c) /\ x = Head(todo[c]) /\ todo[c] # <<>> /\ x.j = "gfind"
  BY <1>0, HeadTyped DEF At, Job, RegisterFind
<1>2. x \in RegisterJob
  BY <1>1, JobKinds
<1> DEFINE found == Fingerprint(x.snap.owner, x.snap.type, x.snap.source, x.snap.hash, x.snap.model)
<1>3. CASE found = {}
  <2>1. PICK r : r = [x EXCEPT !.j = "gmark"] OBVIOUS
  <2>2. r \in RegisterJob /\ r.j = "gmark" BY <1>2, <2>1 DEF RegisterJob
  <2>3. Then(c, <<r>>) BY <1>1, <1>3, <2>1 DEF RegisterFind
  <2>4. r \in StoreJobs /\ r.j \notin FaceKinds /\ Head(todo[c]).j \notin LeaveKinds /\ Safe(r)'
    BY <1>1, <2>2 DEF StoreJobs, LeaveKinds, FaceKinds, Lone, Safe
  <2> QED BY <1>0, <1>1, <2>3, <2>4, OneMoves
<1>4. CASE found # {}
  <2>1. PICK e \in found : Then(c, <<[j |-> "gbind", s |-> x.s, t |-> e, prev |-> x.t, snap |-> x.snap]>>)
    BY <1>1, <1>4 DEF RegisterFind
  <2>2. e \in Ids BY <2>1 DEF Fingerprint, Live
  <2>3. PICK r : r = [j |-> "gbind", s |-> x.s, t |-> e, prev |-> x.t, snap |-> x.snap] OBVIOUS
  <2>4. r \in GbindJob /\ r.j = "gbind" BY <1>2, <2>2, <2>3 DEF GbindJob, RegisterJob
  <2>5. r \in StoreJobs /\ r.j \notin FaceKinds /\ Head(todo[c]).j \notin LeaveKinds /\ Safe(r)'
    BY <1>1, <2>4 DEF StoreJobs, LeaveKinds, FaceKinds, Lone, Safe
  <2> QED BY <1>0, <1>1, <2>1, <2>3, <2>5, OneMoves
<1> QED BY <1>3, <1>4

LEMMA CountAssetMoves ==
    ASSUME PlaceInv, NEW c \in Clients, CountAsset(c)
    PROVE  Moved(c) \/ Halted(c)
<1>0. StoreTyped /\ Cascaded /\ SerialInv
  BY DEF PlaceInv
<1>1. PICK x \in StoreJobs : x = Job(c) /\ x = Head(todo[c]) /\ todo[c] # <<>> /\ x.j = "asset"
  BY <1>0, HeadTyped DEF At, Job, CountAsset
<1>2. x \in AssetJob
  BY <1>1, JobKinds
<1>3. CASE BoundTo(x.t) # {}
  <2>1. Then(c, <<>>) BY <1>1, <1>3 DEF CountAsset
  <2> QED BY <1>0, <1>1, <2>1, EmptyListed, LightMoves
<1>4. CASE BoundTo(x.t) = {}
  <2>1. PICK r : r = [x EXCEPT !.j = "assetdel"] OBVIOUS
  <2>2. r \in AssetJob /\ r.j = "assetdel" BY <1>2, <2>1 DEF AssetJob
  <2>3. Then(c, <<r>>) BY <1>1, <1>4, <2>1 DEF CountAsset
  <2>4. r \in StoreJobs /\ r.j \notin FaceKinds /\ r.j \in LeaveKinds /\ Safe(r)'
    BY <1>1, <2>2 DEF StoreJobs, LeaveKinds, FaceKinds, Lone, Safe
  <2> QED BY <1>0, <1>1, <2>3, <2>4, OneMoves
<1> QED BY <1>3, <1>4

LEMMA CountBlobMoves ==
    ASSUME PlaceInv, NEW c \in Clients, CountBlob(c)
    PROVE  Moved(c) \/ Halted(c)
<1>0. StoreTyped /\ Cascaded /\ SerialInv
  BY DEF PlaceInv
<1>1. PICK x \in StoreJobs : x = Job(c) /\ x = Head(todo[c]) /\ todo[c] # <<>> /\ x.j = "blob"
  BY <1>0, HeadTyped DEF At, Job, CountBlob
<1>2. x \in HashJob
  BY <1>1, JobKinds
<1>3. CASE References(x.h) # {}
  <2>1. Then(c, <<>>) BY <1>1, <1>3 DEF CountBlob
  <2> QED BY <1>0, <1>1, <2>1, EmptyListed, LightMoves
<1>4. CASE References(x.h) = {}
  <2>1. PICK r : r = [j |-> "unlink", h |-> x.h] OBVIOUS
  <2>2. r \in HashJob /\ r.j = "unlink" /\ r.h = x.h BY <1>2, <2>1 DEF HashJob
  <2>3. Then(c, <<r>>) BY <1>1, <1>4, <2>1 DEF CountBlob
  <2>4. Safe(r)'
    <3>1. rows' = rows BY DEF CountBlob, db
    <3>2. \A t \in Ids : rows[t] # None => rows[t].hash # x.h BY <1>4 DEF References, Live
    <3> QED BY <2>2, <3>1, <3>2 DEF Safe
  <2>5. r \in StoreJobs /\ r.j \notin FaceKinds /\ r.j \in LeaveKinds
    BY <1>1, <2>2 DEF StoreJobs, LeaveKinds, FaceKinds, Lone
  <2> QED BY <1>0, <1>1, <2>3, <2>4, <2>5, OneMoves
<1> QED BY <1>3, <1>4

\* The properties a reader builds, of the right types.
LEMMA PropsTyped ==
    ASSUME StoreTyped, Cascaded, NEW p \in Profiles
    PROVE  PropsOf(p) \in SUBSET (Types \X Hashes \X Models)
<1>1. ASSUME NEW s \in Slots, bind[s] # None
      PROVE  <<s[2], rows[bind[s]].hash, IF s[2] = "skin" THEN rows[bind[s]].model ELSE "default">> \in Types \X Hashes \X Models
  <2>1. rows[bind[s]] \in Row /\ s[2] \in Types BY <1>1 DEF StoreTyped, Cascaded, Slots
  <2>2. rows[bind[s]].hash \in Hashes /\ rows[bind[s]].model \in Models BY <2>1 DEF Row
  <2> QED BY <2>1, <2>2 DEF Models
<1> QED BY <1>1 DEF PropsOf

LEMMA PropertiesReadMoves ==
    ASSUME PlaceInv, NEW c \in Clients, PropertiesRead(c)
    PROVE  Moved(c) \/ Halted(c)
<1>0. StoreTyped /\ Cascaded /\ SerialInv
  BY DEF PlaceInv
<1>1. PICK x \in StoreJobs : x = Job(c) /\ x = Head(todo[c]) /\ todo[c] # <<>> /\ x.j = "pread"
  BY <1>0, HeadTyped DEF At, Job, PropertiesRead
<1>2. x \in PreadJob
  BY <1>1, JobKinds
<1>3. PICK p \in Profiles, v \in 0..MaxStamp : p = x.p /\ v = x.stamp
  BY <1>2 DEF PreadJob
<1>4. PICK val \in SUBSET (Types \X Hashes \X Models) : val = PropsOf(p)
  BY <1>0, PropsTyped
<1>5. PICK r : r = [j |-> "pset", p |-> p, stamp |-> v, val |-> val] OBVIOUS
<1>6. r \in PsetJob /\ r.j = "pset"
  BY <1>5 DEF PsetJob
<1>7. Then(c, <<r>>)
  BY <1>1, <1>3, <1>4, <1>5 DEF PropertiesRead
<1>8. r \in StoreJobs /\ r.j \notin FaceKinds /\ Head(todo[c]).j \notin LeaveKinds /\ Safe(r)'
  BY <1>1, <1>6 DEF StoreJobs, LeaveKinds, FaceKinds, Lone, Safe
<1> QED BY <1>0, <1>1, <1>7, <1>8, OneMoves

LEMMA BlobFindMoves ==
    ASSUME PlaceInv, NEW c \in Clients, BlobFind(c)
    PROVE  Moved(c) \/ Halted(c)
<1>0. StoreTyped /\ Cascaded /\ SerialInv
  BY DEF PlaceInv
<1>1. PICK x \in StoreJobs : x = Job(c) /\ x = Head(todo[c]) /\ todo[c] # <<>> /\ x.j = "bfind"
  BY <1>0, HeadTyped DEF At, Job, BlobFind
<1>2. x \in HashJob
  BY <1>1, JobKinds
<1>3. CASE References(x.h) = {}
  <2>1. Then(c, <<>>) BY <1>1, <1>3 DEF BlobFind
  <2> QED BY <1>0, <1>1, <2>1, EmptyListed, LightMoves
<1>4. CASE References(x.h) # {}
  <2>1. PICK r : r = [j |-> "bset", h |-> x.h] OBVIOUS
  <2>2. r \in HashJob /\ r.j = "bset" BY <1>2, <2>1 DEF HashJob
  <2>3. Then(c, <<r>>) BY <1>1, <1>4, <2>1 DEF BlobFind
  <2>4. r \in StoreJobs /\ r.j \notin FaceKinds /\ Head(todo[c]).j \notin LeaveKinds /\ Safe(r)'
    BY <1>1, <2>2 DEF StoreJobs, LeaveKinds, FaceKinds, Lone, Safe
  <2> QED BY <1>0, <1>1, <2>3, <2>4, OneMoves
<1> QED BY <1>3, <1>4

-----------------------------------------------------------------------------
(* The statements of TextureStore that write                               *)

DataTyped ==
    /\ rows \in [Ids -> Row \cup {None}] /\ bind \in [Slots -> Ids \cup {None}]
    /\ preset \in [Slots -> Ids \cup {None}] /\ stamp \in [Profiles -> 0..MaxStamp]
    /\ blobs \subseteq Hashes /\ lookup \subseteq Hashes /\ props \subseteq Entry
    /\ plan \in StoreLoads /\ faults \in Nat
    /\ stale \subseteq Profiles \cup Users \cup Leftovers

LEMMA StepKeeps ==
    ASSUME PlaceInv, NEW c \in Clients, todo[c] # <<>>, Head(todo[c]).j \notin {"picture", "save", "deleted"},
           Moved(c) \/ Halted(c) \/ (\E w \in Seq(JobsOf(Light)) : Cut(c, w)),
           UNCHANGED <<plan, avatars>>, stale \cap Users \subseteq stale',
           DataTyped', Cascaded', plan.serial => RowHasBlob'
    PROVE  PlaceInv'
<1>1. StoreTyped /\ ListsShaped /\ Aside /\ face' = face /\ gone' = gone /\ plan' = plan
  BY DEF PlaceInv, Aside, avatars
<1>2. /\ todo' \in [Clients -> Seq(StoreJobs)] /\ ListsShaped'
      /\ plan.serial /\ SerialInv => OneAtATime' /\ HeadSafe' /\ FaceSafe' /\ AvatarHasPictures'
  BY <1>1, MoveKeeps, HaltKeeps, CutKeeps
<1>3. StoreTyped'
  BY <1>1, <1>2 DEF StoreTyped, DataTyped
<1>4. SerialInv'
  BY <1>1, <1>2 DEF SerialInv, PlaceInv
<1> QED BY <1>2, <1>3, <1>4 DEF PlaceInv

LEMMA ReadKeeps ==
    ASSUME PlaceInv, NEW c \in Clients, todo[c] # <<>>, Head(todo[c]).j \notin {"picture", "save", "deleted"},
           Moved(c) \/ Halted(c), UNCHANGED <<db, blobs, cache, env, avatars>>
    PROVE  PlaceInv'
<1>1. UNCHANGED <<plan, avatars>> /\ stale' = stale
  BY DEF env
<1>2. DataTyped'
  BY DEF PlaceInv, StoreTyped, DataTyped, db, cache, env
<1>3. Cascaded'
  BY DEF PlaceInv, Cascaded, db
<1>4. plan.serial => RowHasBlob'
  BY DEF PlaceInv, SerialInv, RowHasBlob, Live, db
<1> QED BY <1>1, <1>2, <1>3, <1>4, StepKeeps

LEMMA PutFileKeeps ==
    ASSUME PlaceInv, NEW c \in Clients, PutFile(c), UNCHANGED avatars
    PROVE  PlaceInv'
<1>0. StoreTyped /\ Cascaded /\ SerialInv /\ DataTyped
  BY DEF PlaceInv, StoreTyped, DataTyped
<1>1. PICK x \in StoreJobs : x = Job(c) /\ x = Head(todo[c]) /\ todo[c] # <<>> /\ x.j = "put"
  BY <1>0, HeadTyped DEF At, Job, PutFile
<1>2. x \in StoreJob
  BY <1>1, JobKinds
<1>3. PICK r : r = [x EXCEPT !.j = "create"] OBVIOUS
<1>4. r \in StoreJob /\ r.j = "create" /\ r.h = x.h /\ x.h \in Hashes
  BY <1>2, <1>3 DEF StoreJob
<1>5. Then(c, <<r>>) /\ blobs' = blobs \cup {x.h}
  BY <1>1, <1>3 DEF PutFile
<1>6. r \in StoreJobs /\ r.j \notin FaceKinds /\ Head(todo[c]).j \notin LeaveKinds /\ Safe(r)'
  BY <1>1, <1>4, <1>5 DEF StoreJobs, LeaveKinds, FaceKinds, Lone, Safe
<1>m. Moved(c)
  BY <1>0, <1>1, <1>5, <1>6, OneMoves
<1>d. DataTyped'
  BY <1>0, <1>4, <1>5 DEF DataTyped, PutFile, db, cache, env
<1>f. Cascaded'
  BY <1>0 DEF Cascaded, PutFile, db
<1>b. plan.serial => RowHasBlob'
  BY <1>0, <1>5 DEF SerialInv, RowHasBlob, Live, PutFile, db
<1> QED BY <1>1, <1>m, <1>d, <1>f, <1>b, StepKeeps DEF PutFile, env

LEMMA ReplacePutKeeps ==
    ASSUME PlaceInv, NEW c \in Clients, ReplacePut(c), UNCHANGED avatars
    PROVE  PlaceInv'
<1>0. StoreTyped /\ Cascaded /\ SerialInv /\ DataTyped
  BY DEF PlaceInv, StoreTyped, DataTyped
<1>1. PICK x \in StoreJobs : x = Job(c) /\ x = Head(todo[c]) /\ todo[c] # <<>> /\ x.j = "rput"
  BY <1>0, HeadTyped DEF At, Job, ReplacePut
<1>2. x \in RputJob
  BY <1>1, JobKinds
<1>3. PICK r : r = [x EXCEPT !.j = "rlist"] OBVIOUS
<1>4. r \in RputJob /\ r.j = "rlist" /\ r.h = x.h /\ x.h \in Hashes
  BY <1>2, <1>3 DEF RputJob
<1>5. Then(c, <<r>>) /\ blobs' = blobs \cup {x.h}
  BY <1>1, <1>3 DEF ReplacePut
<1>6. r \in StoreJobs /\ r.j \notin FaceKinds /\ Head(todo[c]).j \notin LeaveKinds /\ Safe(r)'
  BY <1>1, <1>4, <1>5 DEF StoreJobs, LeaveKinds, FaceKinds, Lone, Safe
<1>m. Moved(c)
  BY <1>0, <1>1, <1>5, <1>6, OneMoves
<1>d. DataTyped'
  BY <1>0, <1>4, <1>5 DEF DataTyped, ReplacePut, db, cache, env
<1>f. Cascaded'
  BY <1>0 DEF Cascaded, ReplacePut, db
<1>b. plan.serial => RowHasBlob'
  BY <1>0, <1>5 DEF SerialInv, RowHasBlob, Live, ReplacePut, db
<1> QED BY <1>1, <1>m, <1>d, <1>f, <1>b, StepKeeps DEF ReplacePut, env

LEMMA CreateTextureKeeps ==
    ASSUME PlaceInv, NEW c \in Clients, CreateTexture(c), UNCHANGED avatars
    PROVE  PlaceInv'
<1>0. StoreTyped /\ Cascaded /\ SerialInv /\ DataTyped
  BY DEF PlaceInv, StoreTyped, DataTyped
<1>1. PICK x \in StoreJobs : x = Job(c) /\ x = Head(todo[c]) /\ todo[c] # <<>> /\ x.j = "create"
  BY <1>0, HeadTyped DEF At, Job, CreateTexture
<1>2. x \in StoreJob
  BY <1>1, JobKinds
<1>3. PICK t \in FreshIds :
          /\ rows' = [rows EXCEPT ![t] =
                [owner |-> x.u, type |-> x.ty, source |-> x.src, hash |-> x.h,
                 model |-> x.m, wardrobe |-> TRUE, ver |-> 0]]
          /\ Then(c, AfterStore(x, t))
  BY <1>1 DEF CreateTexture
<1>4. t \in Ids /\ rows[t] = None
  BY <1>3 DEF FreshIds, Live
<1>5. PICK row : row = [owner |-> x.u, type |-> x.ty, source |-> x.src, hash |-> x.h,
                        model |-> x.m, wardrobe |-> TRUE, ver |-> 0]
  OBVIOUS
<1>6. row \in Row /\ row.hash = x.h
  BY <1>2, <1>5 DEF Row, StoreJob
<1>n. None \notin Row
  BY StoreAssumption
<1>a. Then(c, AfterStore(x, t))
  BY <1>3
<1>7. rows' = [rows EXCEPT ![t] = row]
  BY <1>3, <1>5
<1>8. ASSUME AfterStore(x, t) = <<>>
      PROVE  Moved(c)
  BY <1>0, <1>1, <1>a, <1>8, EmptyListed, LightMoves
<1>9. ASSUME \E r \in StoreJobs : AfterStore(x, t) = <<r>> /\ r.j = "prev"
      PROVE  Moved(c)
  <2>1. PICK r \in StoreJobs : AfterStore(x, t) = <<r>> /\ r.j = "prev" BY <1>9
  <2>2. r.j \notin FaceKinds /\ Head(todo[c]).j \notin LeaveKinds /\ Safe(r)'
    BY <1>1, <2>1 DEF LeaveKinds, FaceKinds, Lone, Safe
  <2> QED BY <1>0, <1>1, <1>a, <2>1, <2>2, OneMoves
<1>m. Moved(c)
  BY <1>2, <1>4, <1>8, <1>9, AfterStoreListed
<1>d. DataTyped'
  BY <1>0, <1>4, <1>6, <1>7 DEF DataTyped, CreateTexture, cache, env
<1>f. Cascaded'
  BY <1>0, <1>4, <1>6, <1>7, <1>n DEF Cascaded, CreateTexture, DataTyped
<1>b. plan.serial => RowHasBlob'
  <2>1. plan.serial => x.h \in blobs BY <1>0, <1>1 DEF SerialInv, HeadSafe, Safe
  <2> QED BY <1>0, <1>4, <1>6, <1>7, <2>1 DEF SerialInv, RowHasBlob, Live, CreateTexture, DataTyped
<1> QED BY <1>1, <1>m, <1>d, <1>f, <1>b, StepKeeps DEF CreateTexture, env

LEMMA LightSeq == \A q \in Seq(JobsOf(Light)) : q \in Seq(JobsBut(Solo \cup FaceKinds))
<1> DEFINE L == JobsBut(Solo \cup FaceKinds)
<1>1. JobsOf(Light) \subseteq L
  BY LightIsPlain
<1> SUFFICES ASSUME NEW q \in Seq(JobsOf(Light))
             PROVE  q \in Seq(L)
  OBVIOUS
<1> HIDE DEF L
<1>2. \A i \in 1 .. Len(q) : q[i] \in L
  BY <1>1
<1>3. Len(q) \in Nat /\ q = [i \in 1 .. Len(q) |-> q[i]] OBVIOUS
<1> QED BY <1>2, <1>3

LEMMA AfterUpsertListed ==
    ASSUME StoreTyped, NEW x \in UpsertJob, rows[x.t] # None
    PROVE  AfterUpsert(x) \in Seq(JobsBut(Solo \cup FaceKinds))
<1> DEFINE L == JobsBut(Solo \cup FaceKinds)
<1>1. /\ x.s \in Slots /\ x.t \in Ids /\ rows[x.t] \in Row /\ x.s[1] \in Profiles
      /\ x.prev # None => x.prev \in Ids /\ x.snap \in Row
  BY DEF StoreTyped, UpsertJob, Slots
<1>2. PICK A : A = IF x.mode = "bind" THEN <<[j |-> "remember", s |-> x.s, t |-> x.t]>> ELSE <<>>
  OBVIOUS
<1>3. A \in Seq(L)
  <2>1. PICK r : r = [j |-> "remember", s |-> x.s, t |-> x.t] OBVIOUS
  <2>2. r \in BindJob /\ r.j = "remember" BY <1>1, <2>1 DEF BindJob
  <2>3. r \in L BY <2>2 DEF StoreJobs, JobsBut, Solo, FaceKinds, Lone
  <2>4. <<r>> \in Seq(L) /\ <<>> \in Seq(L) BY <2>3
  <2> QED BY <1>2, <2>1, <2>4
<1>4. PICK B : B = IF x.prev # None /\ x.prev # x.t THEN CleanAsset(x.prev, x.snap) ELSE <<>>
  OBVIOUS
<1>5. B \in Seq(JobsOf(Light))
  <2>1. CASE x.prev # None
    <3>1. PICK t \in Ids, row \in Row : t = x.prev /\ row = x.snap BY <1>1, <2>1
    <3>2. CleanAsset(t, row) \in Seq(JobsOf(Light)) BY CleanAssetListed
    <3> QED BY <1>4, <3>1, <3>2, EmptyListed
  <2>2. CASE x.prev = None BY <1>4, <2>2, EmptyListed
  <2> QED BY <2>1, <2>2
<1>6. PICK C : C = IF x.prev # None THEN Forget(x.snap.hash) ELSE <<>> OBVIOUS
<1>7. C \in Seq(JobsOf(Light))
  <2>1. CASE x.prev # None
    <3>1. PICK h \in Hashes : h = x.snap.hash BY <1>1, <2>1, RowHash
    <3> QED BY <1>6, <2>1, <3>1, ForgetListed
  <2>2. CASE x.prev = None BY <1>6, <2>2, EmptyListed
  <2> QED BY <2>1, <2>2
<1>8. PICK D \in Seq(JobsOf(Light)) : D = Refresh(x.s[1])
  <2>1. PICK p \in Profiles : p = x.s[1] BY <1>1
  <2> QED BY <2>1, RefreshListed
<1>9. PICK E \in Seq(JobsOf(Light)) : E = Forget(rows[x.t].hash)
  <2>1. PICK h \in Hashes : h = rows[x.t].hash BY <1>1, RowHash
  <2> QED BY <2>1, ForgetListed
<1>10. AfterUpsert(x) = A \o B \o D \o E \o C
  BY <1>2, <1>4, <1>6, <1>8, <1>9 DEF AfterUpsert
<1>11. B \in Seq(L) /\ C \in Seq(L) /\ D \in Seq(L) /\ E \in Seq(L)
  BY <1>5, <1>7, LightSeq
<1> QED
  <2> HIDE DEF L
  <2>1. A \o B \o D \o E \o C \in Seq(L) BY <1>3, <1>11
  <2> QED BY <1>10, <2>1 DEF L

LEMMA UpsertBindingKeeps ==
    ASSUME PlaceInv, NEW c \in Clients, UpsertBinding(c), UNCHANGED avatars
    PROVE  PlaceInv'
<1>0. StoreTyped /\ Cascaded /\ SerialInv /\ DataTyped
  BY DEF PlaceInv, StoreTyped, DataTyped
<1>1. PICK x \in StoreJobs : x = Job(c) /\ x = Head(todo[c]) /\ todo[c] # <<>> /\ x.j = "upsert"
  BY <1>0, HeadTyped DEF At, Job, UpsertBinding
<1>2. x \in UpsertJob
  BY <1>1, JobKinds
<1>s. x.s \in Slots /\ x.t \in Ids
  BY <1>2 DEF UpsertJob
<1>3. ASSUME rows[x.t] = None
      PROVE  (Moved(c) \/ Halted(c)) /\ bind' = bind
  BY <1>1, <1>3 DEF UpsertBinding, Halted, LeaveKinds
<1>4. ASSUME rows[x.t] # None
      PROVE  (Moved(c) \/ Halted(c)) /\ bind' = [bind EXCEPT ![x.s] = x.t]
  <2>1. PICK N : N = AfterUpsert(x) OBVIOUS
  <2>2. N \in Seq(JobsBut(Solo \cup FaceKinds))
    BY <1>0, <1>2, <1>4, <2>1, AfterUpsertListed
  <2>3. Then(c, N) /\ bind' = [bind EXCEPT ![x.s] = x.t]
    BY <1>1, <1>4, <2>1 DEF UpsertBinding
  <2>4. Head(todo[c]).j \notin LeaveKinds BY <1>1 DEF LeaveKinds
  <2> QED BY <1>0, <1>1, <2>2, <2>3, <2>4, PlainMoves
<1>m. Moved(c) \/ Halted(c)
  BY <1>3, <1>4
<1>d. DataTyped'
  BY <1>0, <1>s, <1>3, <1>4 DEF DataTyped, UpsertBinding, cache, env
<1>f. Cascaded'
  BY <1>0, <1>s, <1>3, <1>4 DEF Cascaded, DataTyped, UpsertBinding
<1>b. plan.serial => RowHasBlob'
  BY <1>0 DEF SerialInv, RowHasBlob, Live, UpsertBinding
<1> QED BY <1>1, <1>m, <1>d, <1>f, <1>b, StepKeeps DEF UpsertBinding, env

LEMMA RememberPresetKeeps ==
    ASSUME PlaceInv, NEW c \in Clients, RememberPreset(c), UNCHANGED avatars
    PROVE  PlaceInv'
<1>0. StoreTyped /\ Cascaded /\ SerialInv /\ DataTyped
  BY DEF PlaceInv, StoreTyped, DataTyped
<1>1. PICK x \in StoreJobs : x = Job(c) /\ x = Head(todo[c]) /\ todo[c] # <<>> /\ x.j = "remember"
  BY <1>0, HeadTyped DEF At, Job, RememberPreset
<1>2. x \in BindJob
  BY <1>1, JobKinds
<1>s. x.s \in Slots /\ x.t \in Ids
  BY <1>2 DEF BindJob
<1>3. ASSUME rows[x.t] = None
      PROVE  (Moved(c) \/ Halted(c)) /\ preset' = preset
  BY <1>1, <1>3 DEF RememberPreset, Halted, LeaveKinds
<1>4. ASSUME rows[x.t] # None
      PROVE  (Moved(c) \/ Halted(c)) /\ (preset' = preset \/ preset' = [preset EXCEPT ![x.s] = x.t])
  <2>1. Then(c, <<>>) /\ (preset' = preset \/ preset' = [preset EXCEPT ![x.s] = x.t])
    BY <1>1, <1>4 DEF RememberPreset
  <2> QED BY <1>0, <1>1, <2>1, EmptyListed, LightMoves
<1>m. Moved(c) \/ Halted(c)
  BY <1>3, <1>4
<1>d. DataTyped'
  BY <1>0, <1>s, <1>3, <1>4 DEF DataTyped, RememberPreset, cache, env
<1>f. Cascaded'
  BY <1>0, <1>s, <1>3, <1>4 DEF Cascaded, DataTyped, RememberPreset
<1>b. plan.serial => RowHasBlob'
  BY <1>0 DEF SerialInv, RowHasBlob, Live, RememberPreset
<1> QED BY <1>1, <1>m, <1>d, <1>f, <1>b, StepKeeps DEF RememberPreset, env

\* A free time stamp is one of those in use.
LEMMA StampIsTyped ==
    /\ RowStampsLeft => FreshRowStamp \in 0..MaxStamp /\ FreshRowStamp \notin HeldRowStamps
    /\ \A p : ProfileStampsLeft(p) => FreshProfileStamp(p) \in 0..MaxStamp /\ FreshProfileStamp(p) \notin HeldProfileStamps(p)
<1>1. RowStampsLeft => \E v \in 0..MaxStamp : v \notin HeldRowStamps
  BY DEF RowStampsLeft
<1>2. \A p : ProfileStampsLeft(p) => \E v \in 0..MaxStamp : v \notin HeldProfileStamps(p)
  BY DEF ProfileStampsLeft
<1> QED BY <1>1, <1>2 DEF FreshRowStamp, FreshProfileStamp

\* A row that is written is one of the table, and stays a row.
LEMMA RowWritten ==
    ASSUME DataTyped, Cascaded, NEW t \in Ids, rows[t] # None, NEW row \in Row, rows' = [rows EXCEPT ![t] = row],
           UNCHANGED <<bind, preset>>
    PROVE  /\ rows' \in [Ids -> Row \cup {None}] /\ Cascaded'
           /\ \A i \in Ids : (rows'[i] # None) <=> (rows[i] # None)
           /\ RowHasBlob /\ row.hash \in blobs' /\ blobs \subseteq blobs' => RowHasBlob'
<1>1. row # None
  BY StoreAssumption
<1>2. rows' \in [Ids -> Row \cup {None}] /\ rows'[t] = row /\ \A i \in Ids \ {t} : rows'[i] = rows[i]
  BY DEF DataTyped
<1>3. Cascaded'
  BY <1>1, <1>2 DEF DataTyped, Cascaded
<1>4. RowHasBlob /\ row.hash \in blobs' /\ blobs \subseteq blobs' => RowHasBlob'
  BY <1>2 DEF RowHasBlob, Live
<1> QED BY <1>1, <1>2, <1>3, <1>4

\* The tables after rows have been deleted, with the cascade.
Deleted(own) ==
    /\ rows' = [t \in Ids |-> IF t \in own THEN None ELSE rows[t]]
    /\ bind' = [s \in Slots |-> IF bind[s] \in own THEN None ELSE bind[s]]
    /\ preset' = [s \in Slots |-> IF preset[s] \in own THEN None ELSE preset[s]]
LEMMA RowsDeleted ==
    ASSUME DataTyped, Cascaded, NEW own, own \subseteq Ids, Deleted(own)
    PROVE  /\ rows' \in [Ids -> Row \cup {None}] /\ bind' \in [Slots -> Ids \cup {None}]
           /\ preset' \in [Slots -> Ids \cup {None}] /\ Cascaded'
           /\ RowHasBlob /\ UNCHANGED blobs => RowHasBlob'
<1>1. /\ rows' \in [Ids -> Row \cup {None}] /\ bind' \in [Slots -> Ids \cup {None}]
      /\ preset' \in [Slots -> Ids \cup {None}]
  BY DEF DataTyped, Deleted
<1>2. \A t \in Ids : rows'[t] = IF t \in own THEN None ELSE rows[t]
  BY DEF Deleted
<1>3. \A s \in Slots : bind'[s] = IF bind[s] \in own THEN None ELSE bind[s]
  BY DEF Deleted
<1>p. \A s \in Slots : preset'[s] = IF preset[s] \in own THEN None ELSE preset[s]
  BY DEF Deleted
<1>4. Cascaded'
  <2> SUFFICES ASSUME NEW s \in Slots
               PROVE  (bind'[s] # None => rows'[bind'[s]] # None) /\ (preset'[s] # None => rows'[preset'[s]] # None)
    BY DEF Cascaded
  <2>1. bind[s] # None /\ bind[s] \notin own => bind[s] \in Ids /\ rows[bind[s]] # None
    BY DEF Cascaded, DataTyped
  <2>2. preset[s] # None /\ preset[s] \notin own => preset[s] \in Ids /\ rows[preset[s]] # None
    BY DEF Cascaded, DataTyped
  <2>3. bind'[s] # None => bind'[s] = bind[s] /\ bind[s] # None /\ bind[s] \notin own
    BY <1>3
  <2>4. preset'[s] # None => preset'[s] = preset[s] /\ preset[s] # None /\ preset[s] \notin own
    BY <1>p
  <2> QED BY <1>2, <2>1, <2>2, <2>3, <2>4
<1>5. RowHasBlob /\ UNCHANGED blobs => RowHasBlob'
  BY <1>2 DEF RowHasBlob, Live
<1> QED BY <1>1, <1>4, <1>5

LEMMA RowDeleted ==
    ASSUME DataTyped, NEW t \in Ids, DeleteRow(t)
    PROVE  Deleted({t})
<1>1. rows' = [i \in Ids |-> IF i \in {t} THEN None ELSE rows[i]]
  BY DEF DataTyped, DeleteRow
<1>2. bind' = [s \in Slots |-> IF bind[s] \in {t} THEN None ELSE bind[s]]
  BY DEF DataTyped, DeleteRow
<1>3. preset' = [s \in Slots |-> IF preset[s] \in {t} THEN None ELSE preset[s]]
  BY DEF DataTyped, DeleteRow
<1> QED BY <1>1, <1>2, <1>3 DEF Deleted

LEMMA ReplaceCasKeeps ==
    ASSUME PlaceInv, NEW c \in Clients, ReplaceCas(c), UNCHANGED avatars
    PROVE  PlaceInv'
<1>0. StoreTyped /\ Cascaded /\ SerialInv /\ DataTyped
  BY DEF PlaceInv, StoreTyped, DataTyped
<1>1. PICK x \in StoreJobs : x = Job(c) /\ x = Head(todo[c]) /\ todo[c] # <<>> /\ x.j = "rcas"
  BY <1>0, HeadTyped DEF At, Job, ReplaceCas
<1>2. x \in RcasJob
  BY <1>1, JobKinds
<1>s. /\ x.t \in Ids /\ x.h \in Hashes /\ x.m \in Models
      /\ UNCHANGED <<bind, preset, stamp, blobs, lookup, props, plan, faults, stale>>
  BY <1>2 DEF RcasJob, ReplaceCas, cache, env
<1>h. plan.serial => x.h \in blobs
  BY <1>0, <1>1 DEF SerialInv, HeadSafe, Safe
<1>3. ASSUME rows[x.t] # None /\ rows[x.t].ver = x.snap.ver
      PROVE  Moved(c) /\ DataTyped' /\ Cascaded' /\ (plan.serial => RowHasBlob')
  <2>1. /\ RowStampsLeft /\ Then(c, AfterReplace(x))
        /\ rows' = [rows EXCEPT ![x.t].source = "local", ![x.t].hash = x.h, ![x.t].model = x.m, ![x.t].ver = FreshRowStamp]
    BY <1>1, <1>3 DEF ReplaceCas
  <2>2. rows[x.t] \in Row BY <1>0, <1>s, <1>3 DEF DataTyped
  <2>3. PICK z \in Row : z = rows[x.t] BY <2>2
  <2>4. PICK v \in Nat : v = FreshRowStamp BY <2>1, StampIsTyped, StoreAssumption
  <2>5. PICK row : row = [z EXCEPT !.source = "local", !.hash = x.h, !.model = x.m, !.ver = v]
    OBVIOUS
  <2>6. row \in Row /\ row.hash = x.h BY <1>s, <2>3, <2>5 DEF Row, Sources
  <2>7. rows' = [rows EXCEPT ![x.t] = row]
    BY <1>0, <1>s, <2>1, <2>3, <2>4, <2>5 DEF DataTyped
  <2>8. PICK N : N = AfterReplace(x) OBVIOUS
  <2>9. N \in Seq(JobsOf(Light)) /\ Then(c, N) BY <1>2, <2>1, <2>8, AfterReplaceListed
  <2>10. Moved(c) BY <1>0, <1>1, <2>9, LightMoves
  <2>11. PICK t \in Ids : t = x.t BY <1>s
  <2>12. /\ rows' \in [Ids -> Row \cup {None}] /\ Cascaded'
         /\ RowHasBlob /\ row.hash \in blobs' /\ blobs \subseteq blobs' => RowHasBlob'
    BY <1>0, <1>s, <1>3, <2>6, <2>7, <2>11, RowWritten
  <2> QED BY <1>0, <1>s, <1>h, <2>6, <2>10, <2>12 DEF DataTyped, SerialInv
<1>4. ASSUME ~ (rows[x.t] # None /\ rows[x.t].ver = x.snap.ver)
      PROVE  Moved(c) /\ DataTyped' /\ Cascaded' /\ (plan.serial => RowHasBlob')
  <2>1. PICK r : r = [x EXCEPT !.j = "rreread"] OBVIOUS
  <2>2. r \in RcasJob /\ r.j = "rreread" /\ r.h = x.h BY <1>2, <2>1 DEF RcasJob
  <2>3. Then(c, <<r>>) /\ rows' = rows BY <1>1, <1>4, <2>1 DEF ReplaceCas
  <2>4. plan.serial => Safe(r)' BY <1>s, <1>h, <2>2 DEF Safe
  <2>5. r \in StoreJobs /\ r.j \notin FaceKinds /\ Head(todo[c]).j \notin LeaveKinds
    BY <1>1, <2>2 DEF StoreJobs, LeaveKinds, FaceKinds, Lone
  <2>6. Moved(c) BY <1>0, <1>1, <2>3, <2>4, <2>5, OneMoves
  <2> QED BY <1>0, <1>s, <2>3, <2>6 DEF DataTyped, Cascaded, SerialInv, RowHasBlob, Live
<1> QED BY <1>1, <1>3, <1>4, <1>s, StepKeeps

LEMMA MetadataWriteKeeps ==
    ASSUME PlaceInv, NEW c \in Clients, MetadataWrite(c), UNCHANGED avatars
    PROVE  PlaceInv'
<1>0. StoreTyped /\ Cascaded /\ SerialInv /\ DataTyped
  BY DEF PlaceInv, StoreTyped, DataTyped
<1>1. PICK x \in StoreJobs : x = Job(c) /\ x = Head(todo[c]) /\ todo[c] # <<>> /\ x.j = "mwrite"
  BY <1>0, HeadTyped DEF At, Job, MetadataWrite
<1>2. x \in MwriteJob
  BY <1>1, JobKinds
<1>s. /\ x.t \in Ids /\ x.m \in Models
      /\ UNCHANGED <<bind, preset, stamp, blobs, lookup, props, plan, faults, stale>>
  BY <1>2 DEF MwriteJob, MetadataWrite, cache, env
<1>3. ASSUME rows[x.t] = None
      PROVE  (Moved(c) \/ Halted(c)) /\ DataTyped' /\ Cascaded' /\ (plan.serial => RowHasBlob')
  <2>1. Halted(c) /\ rows' = rows BY <1>1, <1>3 DEF MetadataWrite, Halted, LeaveKinds
  <2> QED BY <1>0, <1>s, <2>1 DEF DataTyped, Cascaded, SerialInv, RowHasBlob, Live
<1>4. ASSUME rows[x.t] # None
      PROVE  (Moved(c) \/ Halted(c)) /\ DataTyped' /\ Cascaded' /\ (plan.serial => RowHasBlob')
  <2>1. /\ RowStampsLeft /\ Then(c, IF x.m # x.snap.model THEN <<[j |-> "mlist", t |-> x.t]>> ELSE <<>>)
        /\ rows' = [rows EXCEPT ![x.t].model = x.m, ![x.t].ver = FreshRowStamp]
    BY <1>1, <1>4 DEF MetadataWrite
  <2>2. PICK z \in Row : z = rows[x.t] BY <1>0, <1>s, <1>4 DEF DataTyped
  <2>4. PICK v \in Nat : v = FreshRowStamp BY <2>1, StampIsTyped, StoreAssumption
  <2>5. PICK row : row = [z EXCEPT !.model = x.m, !.ver = v] OBVIOUS
  <2>6. row \in Row /\ row.hash = z.hash BY <1>s, <2>2, <2>5 DEF Row
  <2>7. rows' = [rows EXCEPT ![x.t] = row]
    BY <1>0, <1>s, <2>1, <2>2, <2>4, <2>5 DEF DataTyped
  <2>8. PICK t \in Ids : t = x.t BY <1>s
  <2>9. /\ rows' \in [Ids -> Row \cup {None}] /\ Cascaded'
        /\ RowHasBlob /\ row.hash \in blobs' /\ blobs \subseteq blobs' => RowHasBlob'
    BY <1>0, <1>s, <1>4, <2>6, <2>7, <2>8, RowWritten
  <2>10. RowHasBlob => row.hash \in blobs' BY <1>s, <1>4, <2>2, <2>6 DEF RowHasBlob, Live
  <2>11. ASSUME x.m = x.snap.model
         PROVE  Moved(c)
    <3>1. Then(c, <<>>) BY <2>1, <2>11
    <3> QED BY <1>0, <1>1, <3>1, EmptyListed, LightMoves
  <2>12. ASSUME x.m # x.snap.model
         PROVE  Moved(c)
    <3>1. PICK r : r = [j |-> "mlist", t |-> x.t] OBVIOUS
    <3>2. r \in TexJob /\ r.j = "mlist" BY <1>s, <3>1 DEF TexJob
    <3>3. Then(c, <<r>>) BY <2>1, <2>12, <3>1
    <3>4. r \in StoreJobs /\ r.j \notin FaceKinds /\ Head(todo[c]).j \notin LeaveKinds /\ Safe(r)'
      BY <1>1, <3>2 DEF StoreJobs, LeaveKinds, FaceKinds, Lone, Safe
    <3> QED BY <1>0, <1>1, <3>3, <3>4, OneMoves
  <2> QED BY <1>0, <1>s, <2>9, <2>10, <2>11, <2>12 DEF DataTyped, SerialInv
<1> QED BY <1>1, <1>3, <1>4, <1>s, StepKeeps

LEMMA CopyCreateKeeps ==
    ASSUME PlaceInv, NEW c \in Clients, CopyCreate(c), UNCHANGED avatars
    PROVE  PlaceInv'
<1>0. StoreTyped /\ Cascaded /\ SerialInv /\ DataTyped
  BY DEF PlaceInv, StoreTyped, DataTyped
<1>1. PICK x \in StoreJobs : x = Job(c) /\ x = Head(todo[c]) /\ todo[c] # <<>> /\ x.j = "ccreate"
  BY <1>0, HeadTyped DEF At, Job, CopyCreate
<1>2. x \in CopyJob
  BY <1>1, JobKinds
<1>s. x.u \in Users /\ x.snap \in Row
  BY <1>2 DEF CopyJob
<1>3. PICK t \in FreshIds : rows' = [rows EXCEPT ![t] = [x.snap EXCEPT !.owner = x.u, !.source = "local", !.ver = 0]]
  BY <1>1 DEF CopyCreate
<1>4. t \in Ids /\ rows[t] = None
  BY <1>3 DEF FreshIds, Live
<1>5. PICK row : row = [x.snap EXCEPT !.owner = x.u, !.source = "local", !.ver = 0] OBVIOUS
<1>6. row \in Row /\ row.hash = x.snap.hash
  BY <1>s, <1>5 DEF Row, Sources
<1>n. None \notin Row
  BY StoreAssumption
<1>7. rows' = [rows EXCEPT ![t] = row]
  BY <1>3, <1>5
<1>8. Then(c, <<>>)
  BY <1>1 DEF CopyCreate
<1>m. Moved(c)
  BY <1>0, <1>1, <1>8, EmptyListed, LightMoves
<1>d. DataTyped'
  BY <1>0, <1>4, <1>6, <1>7 DEF DataTyped, CopyCreate, cache, env
<1>f. Cascaded'
  BY <1>0, <1>4, <1>6, <1>7, <1>n DEF Cascaded, CopyCreate, DataTyped
<1>b. plan.serial => RowHasBlob'
  <2>1. plan.serial => x.snap.hash \in blobs BY <1>0, <1>1 DEF SerialInv, HeadSafe, Safe
  <2> QED BY <1>0, <1>4, <1>6, <1>7, <2>1 DEF SerialInv, RowHasBlob, Live, CopyCreate, DataTyped
<1> QED BY <1>1, <1>m, <1>d, <1>f, <1>b, StepKeeps DEF CopyCreate, env

LEMMA WardrobeDeleteKeeps ==
    ASSUME PlaceInv, NEW c \in Clients, WardrobeDelete(c), UNCHANGED avatars
    PROVE  PlaceInv'
<1>0. StoreTyped /\ Cascaded /\ SerialInv /\ DataTyped
  BY DEF PlaceInv, StoreTyped, DataTyped
<1>1. PICK x \in StoreJobs : x = Job(c) /\ x = Head(todo[c]) /\ todo[c] # <<>> /\ x.j = "wdel"
  BY <1>0, HeadTyped DEF At, Job, WardrobeDelete
<1>2. x \in WdelJob
  BY <1>1, JobKinds
<1>3. PICK t \in Ids, row \in Row, ps \in SUBSET Profiles : t = x.t /\ row = x.snap /\ ps = x.ps
  BY <1>2 DEF WdelJob
<1>4. DeleteRow(t) /\ Then(c, AfterDelete(row, ps))
  BY <1>1, <1>3 DEF WardrobeDelete
<1>m. Moved(c)
  BY <1>0, <1>1, <1>4, AfterDeleteListed, LightMoves
<1>g. PICK own : own = {t} /\ own \subseteq Ids /\ Deleted(own)
  BY <1>0, <1>4, RowDeleted
<1>r. /\ rows' \in [Ids -> Row \cup {None}] /\ bind' \in [Slots -> Ids \cup {None}]
      /\ preset' \in [Slots -> Ids \cup {None}] /\ Cascaded'
      /\ RowHasBlob /\ UNCHANGED blobs => RowHasBlob'
  BY <1>0, <1>g, RowsDeleted
<1>d. DataTyped'
  BY <1>0, <1>r DEF DataTyped, WardrobeDelete, cache, env
<1>f. Cascaded'
  BY <1>r
<1>b. plan.serial => RowHasBlob'
  BY <1>0, <1>r DEF SerialInv, WardrobeDelete
<1> QED BY <1>1, <1>m, <1>d, <1>f, <1>b, StepKeeps DEF WardrobeDelete, env

LEMMA AdminUnbindKeeps ==
    ASSUME PlaceInv, NEW c \in Clients, AdminUnbind(c), UNCHANGED avatars
    PROVE  PlaceInv'
<1>0. StoreTyped /\ Cascaded /\ SerialInv /\ DataTyped
  BY DEF PlaceInv, StoreTyped, DataTyped
<1>1. PICK x \in StoreJobs : x = Job(c) /\ x = Head(todo[c]) /\ todo[c] # <<>> /\ x.j = "aunbind"
  BY <1>0, HeadTyped DEF At, Job, AdminUnbind
<1>2. x \in TexJob
  BY <1>1, JobKinds
<1>3. PICK ps : ps = ProfilesOf(BoundTo(x.t)) OBVIOUS
<1>4. ps \in SUBSET Profiles
  BY <1>3 DEF ProfilesOf, BoundTo, Slots
<1>5. PICK r : r = [j |-> "wfind", u |-> None, t |-> x.t, ps |-> ps] OBVIOUS
<1>6. r \in WfindJob /\ r.j = "wfind"
  BY <1>2, <1>4, <1>5 DEF WfindJob, TexJob
<1>7. Then(c, <<r>>) /\ bind' = [s \in Slots |-> IF bind[s] = x.t THEN None ELSE bind[s]]
  BY <1>1, <1>3, <1>5 DEF AdminUnbind
<1>8. r \in StoreJobs /\ r.j \notin FaceKinds /\ Head(todo[c]).j \notin LeaveKinds /\ Safe(r)'
  BY <1>1, <1>6 DEF StoreJobs, LeaveKinds, FaceKinds, Lone, Safe
<1>m. Moved(c)
  BY <1>0, <1>1, <1>7, <1>8, OneMoves
<1>d. DataTyped'
  BY <1>0, <1>7 DEF DataTyped, AdminUnbind, cache, env
<1>f. Cascaded'
  BY <1>0, <1>7 DEF Cascaded, AdminUnbind
<1>b. plan.serial => RowHasBlob'
  BY <1>0 DEF SerialInv, RowHasBlob, Live, AdminUnbind
<1> QED BY <1>1, <1>m, <1>d, <1>f, <1>b, StepKeeps DEF AdminUnbind, env

\* A purge is marked: the list stays as it was otherwise.
LEMMA DueAlike ==
    ASSUME NEW q \in Seq(StoreJobs), NEW p
    PROVE  Alike(Due(q, p), q)
<1>1. PICK f : f = Due(q, p) OBVIOUS
<1>2. f = [i \in DOMAIN q |-> IF q[i].j = "purged" /\ q[i].p = p THEN [q[i] EXCEPT !.due = TRUE] ELSE q[i]]
  BY <1>1 DEF Due
<1>3. \A i \in DOMAIN q : f[i] \in StoreJobs /\ (f[i] = q[i] \/ (q[i].j = "purged" /\ f[i].j = "purged"))
  <2> SUFFICES ASSUME NEW i \in DOMAIN q
               PROVE  f[i] \in StoreJobs /\ (f[i] = q[i] \/ (q[i].j = "purged" /\ f[i].j = "purged"))
    OBVIOUS
  <2>1. PICK y \in StoreJobs : y = q[i] OBVIOUS
  <2>2. CASE y.j = "purged" /\ y.p = p
    <3>1. f[i] = [y EXCEPT !.due = TRUE] BY <1>2, <2>1, <2>2
    <3>2. y \in PurgedJob BY <2>2, JobKinds
    <3>3. f[i] \in PurgedJob /\ f[i].j = "purged" BY <3>1, <3>2 DEF PurgedJob
    <3> QED BY <2>1, <2>2, <3>3 DEF StoreJobs
  <2>3. CASE ~ (y.j = "purged" /\ y.p = p) BY <1>2, <2>1, <2>3
  <2> QED BY <2>2, <2>3
<1>4. Len(q) \in Nat /\ DOMAIN q = 1 .. Len(q) OBVIOUS
<1>5. f \in [1 .. Len(q) -> StoreJobs]
  BY <1>2, <1>3, <1>4
<1>6. f \in Seq(StoreJobs) /\ Len(f) = Len(q)
  BY <1>4, <1>5
<1> QED BY <1>1, <1>3, <1>4, <1>6 DEF Alike

LEMMA UnbindDeleteKeeps ==
    ASSUME PlaceInv, NEW c \in Clients, UnbindDelete(c), UNCHANGED avatars
    PROVE  PlaceInv'
<1>0. StoreTyped /\ Cascaded /\ SerialInv /\ DataTyped
  BY DEF PlaceInv, StoreTyped, DataTyped
<1>1. PICK x \in StoreJobs : x = Job(c) /\ x = Head(todo[c]) /\ todo[c] # <<>> /\ x.j = "udel"
  BY <1>0, HeadTyped DEF At, Job, UnbindDelete
<1>2. x \in UdelJob
  BY <1>1, JobKinds
<1>s. x.s \in Slots /\ x.t \in Ids /\ x.snap \in Row /\ x.s[1] \in Profiles /\ x.all \in BOOLEAN
  BY <1>2 DEF UdelJob, Slots
<1>3. PICK t \in Ids, row \in Row, p \in Profiles, h \in Hashes : t = x.t /\ row = x.snap /\ p = x.s[1] /\ h = x.snap.hash
  BY <1>s, RowHash
<1>4. PICK A \in Seq(JobsOf(Light)) : A = CleanAsset(t, row) \o Forget(h)
  <2>1. CleanAsset(t, row) \in Seq(JobsOf(Light)) /\ Forget(h) \in Seq(JobsOf(Light))
    BY CleanAssetListed, ForgetListed
  <2>2. CleanAsset(t, row) \o Forget(h) \in Seq(JobsOf(Light)) BY <2>1
  <2> QED BY <2>2
<1>5. bind' = [bind EXCEPT ![x.s] = None]
  BY <1>1 DEF UnbindDelete
<1>e. todo[c] \in Seq(StoreJobs) /\ Tail(todo[c]) \in Seq(StoreJobs)
  BY <1>0, <1>1 DEF StoreTyped
<1>q. PICK q \in Seq(StoreJobs) : q = Tail(todo[c])
  BY <1>e
<1>6. ASSUME x.all
      PROVE  Moved(c)
  <2>1. todo' = [todo EXCEPT ![c] = A \o Due(q, p)]
    <3>1. todo' = [todo EXCEPT ![c] = CleanAsset(t, row) \o Forget(h) \o Due(Tail(todo[c]), p)]
      BY <1>0, <1>1, <1>3, <1>6 DEF UnbindDelete, StoreTyped
    <3> QED BY <1>4, <1>q, <3>1
  <2>2. PICK R : R = Due(q, p) OBVIOUS
  <2>3. Alike(R, Tail(todo[c])) /\ R \in Seq(StoreJobs) BY <1>q, <2>2, DueAlike DEF Alike
  <2>4. A \in Seq(StoreJobs) /\ Calm(Head(todo[c]).j, A) BY <1>4 DEF Calm, JobsOf
  <2>5. ASSUME NEW r, A = <<r>>
        PROVE  Safe(r)'
    <3>1. r \in JobsOf(Light) BY <1>4, <2>5
    <3> QED BY <3>1 DEF JobsOf, Light, Safe
  <2> QED BY <2>1, <2>2, <2>3, <2>4, <2>5 DEF Moved
<1>7. ASSUME ~ x.all
      PROVE  Moved(c)
  <2>1. PICK B \in Seq(JobsOf(Light)) : B = Refresh(p) BY RefreshListed
  <2>2. PICK N : N = A \o B OBVIOUS
  <2>n. N \in Seq(JobsOf(Light)) BY <2>2
  <2>3. todo' = [todo EXCEPT ![c] = A \o (B \o q)]
    <3>1. todo' = [todo EXCEPT ![c] = CleanAsset(t, row) \o Forget(h) \o (Refresh(p) \o Tail(todo[c]))]
      BY <1>0, <1>1, <1>3, <1>7 DEF UnbindDelete, StoreTyped
    <3> QED BY <1>4, <1>q, <2>1, <3>1
  <2>4. A \o (B \o q) = N \o q
    <3>1. A \in Seq(StoreJobs) /\ B \in Seq(StoreJobs) BY <1>4, <2>1 DEF JobsOf
    <3> QED BY <2>2, <3>1
  <2>5. Then(c, N) BY <1>0, <1>q, <2>3, <2>4 DEF Then, StoreTyped
  <2> QED BY <1>0, <1>1, <2>n, <2>5, LightMoves
<1>m. Moved(c)
  BY <1>s, <1>6, <1>7
<1>d. DataTyped'
  BY <1>0, <1>s, <1>5 DEF DataTyped, UnbindDelete, cache, env
<1>f. Cascaded'
  BY <1>0, <1>s, <1>5 DEF Cascaded, DataTyped, UnbindDelete
<1>b. plan.serial => RowHasBlob'
  BY <1>0 DEF SerialInv, RowHasBlob, Live, UnbindDelete
<1> QED BY <1>1, <1>m, <1>d, <1>f, <1>b, StepKeeps DEF UnbindDelete, env

LEMMA HashDeleteKeeps ==
    ASSUME PlaceInv, NEW c \in Clients, HashDelete(c), UNCHANGED avatars
    PROVE  PlaceInv'
<1>0. StoreTyped /\ Cascaded /\ SerialInv /\ DataTyped
  BY DEF PlaceInv, StoreTyped, DataTyped
<1>1. PICK x \in StoreJobs : x = Job(c) /\ x = Head(todo[c]) /\ todo[c] # <<>> /\ x.j = "hdel"
  BY <1>0, HeadTyped DEF At, Job, HashDelete
<1>2. x \in HashJob
  BY <1>1, JobKinds
<1>3. PICK h \in Hashes : h = x.h
  BY <1>2 DEF HashJob
<1>g. PICK own : own = References(h) /\ own \subseteq Ids /\ Deleted(own)
  BY <1>1, <1>3 DEF HashDelete, References, Live, Deleted
<1>4. PICK N : N = IF own = {} THEN <<>> ELSE CleanBlob(h) \o Forget(h) OBVIOUS
<1>5. N \in Seq(JobsOf(Light))
  <2>1. CleanBlob(h) \in Seq(JobsOf(Light)) /\ Forget(h) \in Seq(JobsOf(Light))
    BY ForgetListed
  <2>2. CleanBlob(h) \o Forget(h) \in Seq(JobsOf(Light)) BY <2>1
  <2> QED BY <1>4, <2>2, EmptyListed
<1>6. Then(c, N)
  BY <1>1, <1>3, <1>g, <1>4 DEF HashDelete
<1>m. Moved(c)
  BY <1>0, <1>1, <1>5, <1>6, LightMoves
<1>r. /\ rows' \in [Ids -> Row \cup {None}] /\ bind' \in [Slots -> Ids \cup {None}]
      /\ preset' \in [Slots -> Ids \cup {None}] /\ Cascaded'
      /\ RowHasBlob /\ UNCHANGED blobs => RowHasBlob'
  BY <1>0, <1>g, RowsDeleted
<1>d. DataTyped'
  BY <1>0, <1>r DEF DataTyped, HashDelete, cache, env
<1>f. Cascaded'
  BY <1>r
<1>b. plan.serial => RowHasBlob'
  BY <1>0, <1>r DEF SerialInv, HashDelete
<1> QED BY <1>1, <1>m, <1>d, <1>f, <1>b, StepKeeps DEF HashDelete, env

LEMMA RegisterMarkKeeps ==
    ASSUME PlaceInv, NEW c \in Clients, RegisterMark(c), UNCHANGED avatars
    PROVE  PlaceInv'
<1>0. StoreTyped /\ Cascaded /\ SerialInv /\ DataTyped
  BY DEF PlaceInv, StoreTyped, DataTyped
<1>1. PICK x \in StoreJobs : x = Job(c) /\ x = Head(todo[c]) /\ todo[c] # <<>> /\ x.j = "gmark"
  BY <1>0, HeadTyped DEF At, Job, RegisterMark
<1>2. x \in RegisterJob
  BY <1>1, JobKinds
<1>s. /\ x.t \in Ids /\ x.s \in Slots /\ x.s[1] \in Profiles
      /\ UNCHANGED <<bind, preset, stamp, blobs, lookup, props, plan, faults, stale>>
  BY <1>2 DEF RegisterJob, RegisterMark, cache, env, Slots
<1>3. ASSUME rows[x.t] = None
      PROVE  (Moved(c) \/ Halted(c)) /\ DataTyped' /\ Cascaded' /\ (plan.serial => RowHasBlob')
  <2>1. Halted(c) /\ rows' = rows BY <1>1, <1>3 DEF RegisterMark, Halted, LeaveKinds
  <2> QED BY <1>0, <1>s, <2>1 DEF DataTyped, Cascaded, SerialInv, RowHasBlob, Live
<1>4. ASSUME rows[x.t] # None
      PROVE  (Moved(c) \/ Halted(c)) /\ DataTyped' /\ Cascaded' /\ (plan.serial => RowHasBlob')
  <2>1. /\ RowStampsLeft /\ Then(c, Refresh(x.s[1]))
        /\ rows' = [rows EXCEPT ![x.t].wardrobe = TRUE, ![x.t].ver = FreshRowStamp]
    BY <1>1, <1>4 DEF RegisterMark
  <2>2. PICK z \in Row : z = rows[x.t] BY <1>0, <1>s, <1>4 DEF DataTyped
  <2>4. PICK v \in Nat : v = FreshRowStamp BY <2>1, StampIsTyped, StoreAssumption
  <2>5. PICK row : row = [z EXCEPT !.wardrobe = TRUE, !.ver = v] OBVIOUS
  <2>6. row \in Row /\ row.hash = z.hash BY <2>2, <2>5 DEF Row
  <2>7. rows' = [rows EXCEPT ![x.t] = row]
    BY <1>0, <1>s, <2>1, <2>2, <2>4, <2>5 DEF DataTyped
  <2>8. PICK t \in Ids : t = x.t BY <1>s
  <2>9. /\ rows' \in [Ids -> Row \cup {None}] /\ Cascaded'
        /\ RowHasBlob /\ row.hash \in blobs' /\ blobs \subseteq blobs' => RowHasBlob'
    BY <1>0, <1>s, <1>4, <2>6, <2>7, <2>8, RowWritten
  <2>10. RowHasBlob => row.hash \in blobs' BY <1>s, <1>4, <2>2, <2>6 DEF RowHasBlob, Live
  <2>11. PICK p \in Profiles : p = x.s[1] BY <1>s
  <2>12. Then(c, Refresh(p)) BY <2>1, <2>11
  <2>13. Moved(c) BY <1>0, <1>1, <2>12, RefreshListed, LightMoves
  <2> QED BY <1>0, <1>s, <2>9, <2>10, <2>13 DEF DataTyped, SerialInv
<1> QED BY <1>1, <1>3, <1>4, <1>s, StepKeeps

LEMMA RegisterBindKeeps ==
    ASSUME PlaceInv, NEW c \in Clients, RegisterBind(c), UNCHANGED avatars
    PROVE  PlaceInv'
<1>0. StoreTyped /\ Cascaded /\ SerialInv /\ DataTyped
  BY DEF PlaceInv, StoreTyped, DataTyped
<1>1. PICK x \in StoreJobs : x = Job(c) /\ x = Head(todo[c]) /\ todo[c] # <<>> /\ x.j = "gbind"
  BY <1>0, HeadTyped DEF At, Job, RegisterBind
<1>2. x \in GbindJob
  BY <1>1, JobKinds
<1>s. x.s \in Slots /\ x.t \in Ids /\ x.s[1] \in Profiles /\ x.snap.hash \in Hashes /\ x.prev \in Ids
  BY <1>2 DEF GbindJob, Slots, Row
<1>3. ASSUME rows[x.t] = None
      PROVE  (Moved(c) \/ Halted(c)) /\ bind' = bind
  BY <1>1, <1>3 DEF RegisterBind, Halted, LeaveKinds
<1>4. ASSUME rows[x.t] # None
      PROVE  (Moved(c) \/ Halted(c)) /\ bind' = [bind EXCEPT ![x.s] = x.t]
  <2>1. rows[x.t].hash \in Hashes
    <3>1. rows[x.t] \in Row BY <1>0, <1>s, <1>4 DEF StoreTyped
    <3> QED BY <3>1, RowHash
  <2>2. PICK p \in Profiles, h \in Hashes, k \in Hashes : p = x.s[1] /\ h = rows[x.t].hash /\ k = x.snap.hash
    BY <1>s, <2>1
  <2>3. Refresh(p) \in Seq(JobsOf(Light)) /\ Forget(h) \in Seq(JobsOf(Light)) /\ Forget(k) \in Seq(JobsOf(Light))
    BY RefreshListed, ForgetListed
  <2>4. PICK A : A = Refresh(p) \o Forget(h) \o Forget(k) OBVIOUS
  <2>a. A \in Seq(JobsOf(Light)) BY <2>3, <2>4
  <2>5. A \in Seq(JobsBut(Solo \cup FaceKinds)) BY <2>a, LightSeq
  <2>6. PICK r : r = [j |-> "gdel", t |-> x.prev] OBVIOUS
  <2>7. r \in TexJob /\ r.j = "gdel" BY <1>s, <2>6 DEF TexJob
  <2>8. r \in JobsBut(Solo \cup FaceKinds)
    BY <2>7 DEF StoreJobs, JobsBut, Solo, FaceKinds, Lone
  <2>9. PICK N : N = A \o <<r>> OBVIOUS
  <2>b. N \in Seq(JobsBut(Solo \cup FaceKinds)) BY <2>5, <2>8, <2>9
  <2>10. Then(c, N) /\ bind' = [bind EXCEPT ![x.s] = x.t]
    BY <1>1, <1>4, <2>2, <2>4, <2>6, <2>9 DEF RegisterBind
  <2>11. Head(todo[c]).j \notin LeaveKinds BY <1>1 DEF LeaveKinds
  <2> QED BY <1>0, <1>1, <2>b, <2>10, <2>11, PlainMoves
<1>m. Moved(c) \/ Halted(c)
  BY <1>3, <1>4
<1>d. DataTyped'
  BY <1>0, <1>s, <1>3, <1>4 DEF DataTyped, RegisterBind, cache, env
<1>f. Cascaded'
  BY <1>0, <1>s, <1>3, <1>4 DEF Cascaded, DataTyped, RegisterBind
<1>b. plan.serial => RowHasBlob'
  BY <1>0 DEF SerialInv, RowHasBlob, Live, RegisterBind
<1> QED BY <1>1, <1>m, <1>d, <1>f, <1>b, StepKeeps DEF RegisterBind, env

LEMMA RegisterDeleteKeeps ==
    ASSUME PlaceInv, NEW c \in Clients, RegisterDelete(c), UNCHANGED avatars
    PROVE  PlaceInv'
<1>0. StoreTyped /\ Cascaded /\ SerialInv /\ DataTyped
  BY DEF PlaceInv, StoreTyped, DataTyped
<1>1. PICK x \in StoreJobs : x = Job(c) /\ x = Head(todo[c]) /\ todo[c] # <<>> /\ x.j = "gdel"
  BY <1>0, HeadTyped DEF At, Job, RegisterDelete
<1>2. x \in TexJob
  BY <1>1, JobKinds
<1>s. x.t \in Ids /\ UNCHANGED <<stamp, blobs, lookup, props, plan, faults, stale>>
  BY <1>2 DEF TexJob, RegisterDelete, cache, env
<1>3. ASSUME rows[x.t] = None
      PROVE  Moved(c) /\ DataTyped' /\ Cascaded' /\ (plan.serial => RowHasBlob')
  <2>1. Then(c, <<>>) /\ UNCHANGED <<rows, bind, preset>> BY <1>1, <1>3 DEF RegisterDelete
  <2>2. Moved(c) BY <1>0, <1>1, <2>1, EmptyListed, LightMoves
  <2> QED BY <1>0, <1>s, <2>1, <2>2 DEF DataTyped, Cascaded, SerialInv, RowHasBlob, Live
<1>4. ASSUME rows[x.t] # None
      PROVE  Moved(c) /\ DataTyped' /\ Cascaded' /\ (plan.serial => RowHasBlob')
  <2>1. PICK t \in Ids : t = x.t BY <1>s
  <2>2. PICK h \in Hashes : h = rows[t].hash
    <3>1. rows[t] \in Row BY <1>0, <1>4, <2>1 DEF StoreTyped
    <3> QED BY <3>1, RowHash
  <2>3. DeleteRow(t) /\ Then(c, CleanBlob(h) \o Forget(h))
    BY <1>1, <1>4, <2>1, <2>2 DEF RegisterDelete
  <2>4. PICK N : N = CleanBlob(h) \o Forget(h) OBVIOUS
  <2>5. N \in Seq(JobsOf(Light)) /\ Then(c, N)
    <3>1. CleanBlob(h) \in Seq(JobsOf(Light)) /\ Forget(h) \in Seq(JobsOf(Light))
      BY ForgetListed
    <3> QED BY <2>3, <2>4, <3>1
  <2>6. Moved(c) BY <1>0, <1>1, <2>5, LightMoves
  <2>7. PICK own : own = {t} /\ own \subseteq Ids /\ Deleted(own)
    BY <1>0, <2>3, RowDeleted
  <2>8. /\ rows' \in [Ids -> Row \cup {None}] /\ bind' \in [Slots -> Ids \cup {None}]
        /\ preset' \in [Slots -> Ids \cup {None}] /\ Cascaded'
        /\ RowHasBlob /\ UNCHANGED blobs => RowHasBlob'
    BY <1>0, <2>7, RowsDeleted
  <2> QED BY <1>0, <1>s, <2>6, <2>8 DEF DataTyped, SerialInv
<1> QED BY <1>1, <1>3, <1>4, <1>s, StepKeeps

LEMMA OrphanListKeeps ==
    ASSUME PlaceInv, NEW c \in Clients, OrphanList(c), UNCHANGED avatars
    PROVE  PlaceInv'
<1>0. StoreTyped /\ Cascaded /\ SerialInv /\ DataTyped
  BY DEF PlaceInv, StoreTyped, DataTyped
<1>1. PICK x \in StoreJobs : x = Job(c) /\ x = Head(todo[c]) /\ todo[c] # <<>> /\ x.j = "klist"
  BY <1>0, HeadTyped DEF At, Job, OrphanList
<1>3. PICK S : S = blobs OBVIOUS
<1>4. IsFiniteSet(S) /\ S \subseteq Hashes
  BY <1>0, <1>3, StoreAssumption, FS_Subset DEF StoreTyped
<1>5. PICK f : f = [h \in S |-> [j |-> "blob", h |-> h]] OBVIOUS
<1>6. \A h \in S : f[h] \in JobsOf(Light)
  <2> SUFFICES ASSUME NEW h \in S
               PROVE  f[h] \in JobsOf(Light)
    OBVIOUS
  <2>1. f[h] \in HashJob /\ f[h].j = "blob" BY <1>4, <1>5 DEF HashJob
  <2> QED BY <2>1 DEF StoreJobs, JobsOf, Light
<1>7. PICK A : A = SetToSeq({f[h] : h \in S}) OBVIOUS
<1>8. A \in Seq(JobsOf(Light))
  <2>1. f = [h \in S |-> f[h]] BY <1>5
  <2>2. PICK K : K = JobsOf(Light) OBVIOUS
  <2>3. A \in Seq(K) BY <1>4, <1>6, <1>7, <2>1, <2>2, ListOfEach
  <2> QED BY <2>2, <2>3
<1>9. {f[h] : h \in S} = {[j |-> "blob", h |-> h] : h \in S}
  BY <1>5
<1>10. A \in Seq(JobsBut(Solo \cup FaceKinds))
  BY <1>8, LightSeq
<1>11. PICK r : r = [j |-> "kend"] OBVIOUS
<1>12. r \in JobsBut(Solo \cup FaceKinds)
  BY <1>11 DEF StoreJobs, BareJob, JobsBut, Solo, FaceKinds, Lone
<1>13. PICK N : N = A \o <<r>> OBVIOUS
<1>14. N \in Seq(JobsBut(Solo \cup FaceKinds))
  BY <1>10, <1>12, <1>13
<1>15. Then(c, N)
  BY <1>1, <1>3, <1>7, <1>9, <1>11, <1>13 DEF OrphanList
<1>m. Moved(c)
  BY <1>0, <1>1, <1>14, <1>15, PlainMoves DEF LeaveKinds
<1>l. "blob" \notin Users /\ "sweep" \notin Users /\ "lookup" \notin Users
  BY StoreAssumption DEF Leftovers
<1>u. stale \cap Users \subseteq stale'
  BY <1>l DEF OrphanList
<1>d. DataTyped'
  BY <1>0, <1>1 DEF DataTyped, OrphanList, db, cache, env
<1>f. Cascaded'
  BY <1>0 DEF Cascaded, OrphanList, db
<1>b. plan.serial => RowHasBlob'
  BY <1>0 DEF SerialInv, RowHasBlob, Live, OrphanList, db
<1> QED BY <1>1, <1>m, <1>d, <1>f, <1>b, <1>u, StepKeeps DEF OrphanList, env

LEMMA OrphanEndKeeps ==
    ASSUME PlaceInv, NEW c \in Clients, OrphanEnd(c), UNCHANGED avatars
    PROVE  PlaceInv'
<1>0. StoreTyped /\ Cascaded /\ SerialInv /\ DataTyped
  BY DEF PlaceInv, StoreTyped, DataTyped
<1>1. PICK x \in StoreJobs : x = Job(c) /\ x = Head(todo[c]) /\ todo[c] # <<>> /\ x.j = "kend"
  BY <1>0, HeadTyped DEF At, Job, OrphanEnd
<1>p. Then(c, <<>>)
  BY <1>1 DEF OrphanEnd
<1>m. Moved(c)
  BY <1>0, <1>1, <1>p, EmptyListed, LightMoves
<1>l. "blob" \notin Users /\ "sweep" \notin Users /\ "lookup" \notin Users
  BY StoreAssumption DEF Leftovers
<1>u. stale \cap Users \subseteq stale'
  BY <1>l DEF OrphanEnd
<1>d. DataTyped'
  BY <1>0, <1>1 DEF DataTyped, OrphanEnd, db, cache, env
<1>f. Cascaded'
  BY <1>0 DEF Cascaded, OrphanEnd, db
<1>b. plan.serial => RowHasBlob'
  BY <1>0 DEF SerialInv, RowHasBlob, Live, OrphanEnd, db
<1> QED BY <1>1, <1>m, <1>d, <1>f, <1>b, <1>u, StepKeeps DEF OrphanEnd, env

LEMMA DeleteAssetKeeps ==
    ASSUME PlaceInv, NEW c \in Clients, DeleteAsset(c), UNCHANGED avatars
    PROVE  PlaceInv'
<1>0. StoreTyped /\ Cascaded /\ SerialInv /\ DataTyped
  BY DEF PlaceInv, StoreTyped, DataTyped
<1>1. PICK x \in StoreJobs : x = Job(c) /\ x = Head(todo[c]) /\ todo[c] # <<>> /\ x.j = "assetdel"
  BY <1>0, HeadTyped DEF At, Job, DeleteAsset
<1>2. x \in AssetJob
  BY <1>1, JobKinds
<1>s. x.t \in Ids /\ x.snap \in Row
  BY <1>2 DEF AssetJob
<1>3. PICK h \in Hashes, t \in Ids : h = x.snap.hash /\ t = x.t
  BY <1>s, RowHash
<1>4. Then(c, CleanBlob(h))
  BY <1>1, <1>3 DEF DeleteAsset
<1>m. Moved(c)
  BY <1>0, <1>1, <1>4, ForgetListed, LightMoves
<1>u. UNCHANGED <<stamp, blobs, lookup, props, plan, faults, stale>>
  BY DEF DeleteAsset, cache, env
<1>5. ASSUME rows[t] = None
      PROVE  DataTyped' /\ Cascaded' /\ (plan.serial => RowHasBlob')
  <2>1. UNCHANGED <<rows, bind, preset>> BY <1>1, <1>3, <1>5 DEF DeleteAsset
  <2> QED BY <1>0, <1>u, <2>1 DEF DataTyped, Cascaded, SerialInv, RowHasBlob, Live
<1>6. ASSUME rows[t] # None
      PROVE  DataTyped' /\ Cascaded' /\ (plan.serial => RowHasBlob')
  <2>1. DeleteRow(t) BY <1>1, <1>3, <1>6 DEF DeleteAsset
  <2>2. PICK own : own = {t} /\ own \subseteq Ids /\ Deleted(own)
    BY <1>0, <2>1, RowDeleted
  <2>3. /\ rows' \in [Ids -> Row \cup {None}] /\ bind' \in [Slots -> Ids \cup {None}]
        /\ preset' \in [Slots -> Ids \cup {None}] /\ Cascaded'
        /\ RowHasBlob /\ UNCHANGED blobs => RowHasBlob'
    BY <1>0, <2>2, RowsDeleted
  <2> QED BY <1>0, <1>u, <2>3 DEF DataTyped, SerialInv
<1> QED BY <1>1, <1>m, <1>5, <1>6, <1>u, StepKeeps

LEMMA DeleteBlobKeeps ==
    ASSUME PlaceInv, NEW c \in Clients, DeleteBlob(c), UNCHANGED avatars
    PROVE  PlaceInv'
<1>0. StoreTyped /\ Cascaded /\ SerialInv /\ DataTyped
  BY DEF PlaceInv, StoreTyped, DataTyped
<1>1. PICK x \in StoreJobs : x = Job(c) /\ x = Head(todo[c]) /\ todo[c] # <<>> /\ x.j = "unlink"
  BY <1>0, HeadTyped DEF At, Job, DeleteBlob
<1>2. x \in HashJob
  BY <1>1, JobKinds
<1>p. Then(c, <<>>)
  BY <1>1 DEF DeleteBlob
<1>m. Moved(c)
  BY <1>0, <1>1, <1>p, EmptyListed, LightMoves
<1>d. DataTyped'
  BY <1>0 DEF DataTyped, DeleteBlob, db, cache, env
<1>f. Cascaded'
  BY <1>0 DEF Cascaded, DeleteBlob, db
<1>b. plan.serial => RowHasBlob'
  <2>1. plan.serial => \A t \in Ids : rows[t] # None => rows[t].hash # x.h
    BY <1>0, <1>1 DEF SerialInv, HeadSafe, Safe
  <2>2. blobs' = blobs \ {x.h} /\ rows' = rows BY <1>1 DEF DeleteBlob, db
  <2> QED BY <1>0, <2>1, <2>2 DEF SerialInv, RowHasBlob, Live
<1> QED BY <1>1, <1>m, <1>d, <1>f, <1>b, StepKeeps DEF DeleteBlob, env

LEMMA DeleteBlobFailsKeeps ==
    ASSUME PlaceInv, NEW c \in Clients, DeleteBlobFails(c), UNCHANGED avatars
    PROVE  PlaceInv'
<1>0. StoreTyped /\ Cascaded /\ SerialInv /\ DataTyped
  BY DEF PlaceInv, StoreTyped, DataTyped
<1>1. PICK x \in StoreJobs : x = Job(c) /\ x = Head(todo[c]) /\ todo[c] # <<>> /\ x.j = "unlink"
  BY <1>0, HeadTyped DEF At, Job, DeleteBlobFails
<1>2. x \in HashJob
  BY <1>1, JobKinds
<1>p. Then(c, <<>>)
  BY <1>1 DEF DeleteBlobFails
<1>m. Moved(c)
  BY <1>0, <1>1, <1>p, EmptyListed, LightMoves
<1>u. stale \cap Users \subseteq stale'
  BY DEF DeleteBlobFails
<1>v. faults \in Nat /\ faults > 0 /\ faults' = faults - 1 /\ stale' \subseteq Profiles \cup Users \cup Leftovers
  BY <1>0 DEF DataTyped, DeleteBlobFails, Leftovers
<1>d. DataTyped'
  BY <1>0, <1>v DEF DataTyped, DeleteBlobFails, db, cache, env
<1>f. Cascaded'
  BY <1>0 DEF Cascaded, DeleteBlobFails, db
<1>b. plan.serial => RowHasBlob'
  BY <1>0 DEF SerialInv, RowHasBlob, Live, DeleteBlobFails, db
<1> QED BY <1>1, <1>m, <1>d, <1>f, <1>b, <1>u, StepKeeps DEF DeleteBlobFails, env

LEMMA CreateFailsKeeps ==
    ASSUME PlaceInv, NEW c \in Clients, CreateFails(c), UNCHANGED avatars
    PROVE  PlaceInv'
<1>0. StoreTyped /\ Cascaded /\ SerialInv /\ DataTyped
  BY DEF PlaceInv, StoreTyped, DataTyped
<1>1. PICK x \in StoreJobs : x = Job(c) /\ x = Head(todo[c]) /\ todo[c] # <<>> /\ x.j = "create"
  BY <1>0, HeadTyped DEF At, Job, CreateFails
<1>2. x \in StoreJob
  BY <1>1, JobKinds
<1>3. PICK h \in Hashes : h = x.h
  BY <1>2 DEF StoreJob
<1>4. PICK w \in Seq(JobsOf(Light)) : w = CleanBlob(h)
  BY ForgetListed
<1>m. \E z \in Seq(JobsOf(Light)) : Cut(c, z)
  <2>1. Cut(c, w) BY <1>1, <1>3, <1>4 DEF CreateFails, Cut, LeaveKinds
  <2> QED BY <2>1
<1>v. faults \in Nat /\ faults > 0 /\ faults' = faults - 1
  BY <1>0 DEF DataTyped, CreateFails
<1>d. DataTyped'
  BY <1>0, <1>v DEF DataTyped, CreateFails, db, cache, env
<1>f. Cascaded'
  BY <1>0 DEF Cascaded, CreateFails, db
<1>b. plan.serial => RowHasBlob'
  BY <1>0 DEF SerialInv, RowHasBlob, Live, CreateFails, db
<1> QED BY <1>1, <1>m, <1>d, <1>f, <1>b, StepKeeps DEF CreateFails, env

LEMMA InvalidatePropertiesKeeps ==
    ASSUME PlaceInv, NEW c \in Clients, InvalidateProperties(c), UNCHANGED avatars
    PROVE  PlaceInv'
<1>0. StoreTyped /\ Cascaded /\ SerialInv /\ DataTyped
  BY DEF PlaceInv, StoreTyped, DataTyped
<1>1. PICK x \in StoreJobs : x = Job(c) /\ x = Head(todo[c]) /\ todo[c] # <<>> /\ x.j = "props"
  BY <1>0, HeadTyped DEF At, Job, InvalidateProperties
<1>2. x \in ProfileJob
  BY <1>1, JobKinds
<1>p. Then(c, <<>>)
  BY <1>1 DEF InvalidateProperties
<1>m. Moved(c)
  BY <1>0, <1>1, <1>p, EmptyListed, LightMoves
<1>d. DataTyped'
  BY <1>0, <1>1 DEF DataTyped, InvalidateProperties, db, cache, env
<1>f. Cascaded'
  BY <1>0 DEF Cascaded, InvalidateProperties, db
<1>b. plan.serial => RowHasBlob'
  BY <1>0 DEF SerialInv, RowHasBlob, Live, InvalidateProperties, db
<1> QED BY <1>1, <1>m, <1>d, <1>f, <1>b, StepKeeps DEF InvalidateProperties, env

LEMMA TouchProfileKeeps ==
    ASSUME PlaceInv, NEW c \in Clients, TouchProfile(c), UNCHANGED avatars
    PROVE  PlaceInv'
<1>0. StoreTyped /\ Cascaded /\ SerialInv /\ DataTyped
  BY DEF PlaceInv, StoreTyped, DataTyped
<1>1. PICK x \in StoreJobs : x = Job(c) /\ x = Head(todo[c]) /\ todo[c] # <<>> /\ x.j = "touch"
  BY <1>0, HeadTyped DEF At, Job, TouchProfile
<1>2. x \in ProfileJob
  BY <1>1, JobKinds
<1>p. Then(c, <<>>)
  BY <1>1 DEF TouchProfile
<1>m. Moved(c)
  BY <1>0, <1>1, <1>p, EmptyListed, LightMoves
<1>s. x.p \in Profiles /\ FreshProfileStamp(x.p) \in 0 .. MaxStamp
  BY <1>1, <1>2, StampIsTyped DEF ProfileJob, TouchProfile
<1>t. stamp' = [stamp EXCEPT ![x.p] = FreshProfileStamp(x.p)]
  BY <1>1 DEF TouchProfile
<1>d. DataTyped'
  BY <1>0, <1>s, <1>t DEF DataTyped, TouchProfile, db, cache, env
<1>f. Cascaded'
  BY <1>0 DEF Cascaded, TouchProfile, db
<1>b. plan.serial => RowHasBlob'
  BY <1>0 DEF SerialInv, RowHasBlob, Live, TouchProfile, db
<1> QED BY <1>1, <1>m, <1>d, <1>f, <1>b, StepKeeps DEF TouchProfile, env

LEMMA InvalidateLookupKeeps ==
    ASSUME PlaceInv, NEW c \in Clients, InvalidateLookup(c), UNCHANGED avatars
    PROVE  PlaceInv'
<1>0. StoreTyped /\ Cascaded /\ SerialInv /\ DataTyped
  BY DEF PlaceInv, StoreTyped, DataTyped
<1>1. PICK x \in StoreJobs : x = Job(c) /\ x = Head(todo[c]) /\ todo[c] # <<>> /\ x.j = "lookup"
  BY <1>0, HeadTyped DEF At, Job, InvalidateLookup
<1>2. x \in HashJob
  BY <1>1, JobKinds
<1>p. Then(c, <<>>)
  BY <1>1 DEF InvalidateLookup
<1>m. Moved(c)
  BY <1>0, <1>1, <1>p, EmptyListed, LightMoves
<1>d. DataTyped'
  BY <1>0, <1>1 DEF DataTyped, InvalidateLookup, db, cache, env
<1>f. Cascaded'
  BY <1>0 DEF Cascaded, InvalidateLookup, db
<1>b. plan.serial => RowHasBlob'
  BY <1>0 DEF SerialInv, RowHasBlob, Live, InvalidateLookup, db
<1> QED BY <1>1, <1>m, <1>d, <1>f, <1>b, StepKeeps DEF InvalidateLookup, env

LEMMA PropertiesSetKeeps ==
    ASSUME PlaceInv, NEW c \in Clients, PropertiesSet(c), UNCHANGED avatars
    PROVE  PlaceInv'
<1>0. StoreTyped /\ Cascaded /\ SerialInv /\ DataTyped
  BY DEF PlaceInv, StoreTyped, DataTyped
<1>1. PICK x \in StoreJobs : x = Job(c) /\ x = Head(todo[c]) /\ todo[c] # <<>> /\ x.j = "pset"
  BY <1>0, HeadTyped DEF At, Job, PropertiesSet
<1>2. x \in PsetJob
  BY <1>1, JobKinds
<1>p. Then(c, <<>>)
  BY <1>1 DEF PropertiesSet
<1>m. Moved(c)
  BY <1>0, <1>1, <1>p, EmptyListed, LightMoves
<1>3. PICK e : e = [profile |-> x.p, ver |-> x.stamp, val |-> x.val] OBVIOUS
<1>4. e \in Entry
  BY <1>2, <1>3, StoreAssumption DEF PsetJob, Entry
<1>5. props' = {z \in props : z.profile # x.p \/ z.ver # x.stamp} \cup {e}
  BY <1>1, <1>3 DEF PropertiesSet
<1>6. props' \subseteq Entry
  BY <1>0, <1>4, <1>5 DEF DataTyped
<1>d. DataTyped'
  BY <1>0, <1>6 DEF DataTyped, PropertiesSet, db, cache, env
<1>f. Cascaded'
  BY <1>0 DEF Cascaded, PropertiesSet, db
<1>b. plan.serial => RowHasBlob'
  BY <1>0 DEF SerialInv, RowHasBlob, Live, PropertiesSet, db
<1> QED BY <1>1, <1>m, <1>d, <1>f, <1>b, StepKeeps DEF PropertiesSet, env

LEMMA BlobSetKeeps ==
    ASSUME PlaceInv, NEW c \in Clients, BlobSet(c), UNCHANGED avatars
    PROVE  PlaceInv'
<1>0. StoreTyped /\ Cascaded /\ SerialInv /\ DataTyped
  BY DEF PlaceInv, StoreTyped, DataTyped
<1>1. PICK x \in StoreJobs : x = Job(c) /\ x = Head(todo[c]) /\ todo[c] # <<>> /\ x.j = "bset"
  BY <1>0, HeadTyped DEF At, Job, BlobSet
<1>2. x \in HashJob
  BY <1>1, JobKinds
<1>p. Then(c, <<>>)
  BY <1>1 DEF BlobSet
<1>m. Moved(c)
  BY <1>0, <1>1, <1>p, EmptyListed, LightMoves
<1>3. x.h \in Hashes /\ lookup' = lookup \cup {x.h}
  BY <1>1, <1>2 DEF HashJob, BlobSet
<1>d. DataTyped'
  BY <1>0, <1>3 DEF DataTyped, BlobSet, db, cache, env
<1>f. Cascaded'
  BY <1>0 DEF Cascaded, BlobSet, db
<1>b. plan.serial => RowHasBlob'
  BY <1>0 DEF SerialInv, RowHasBlob, Live, BlobSet, db
<1> QED BY <1>1, <1>m, <1>d, <1>f, <1>b, StepKeeps DEF BlobSet, env

\* What leaves the requests and the tables alone.
LEMMA StillKeeps ==
    ASSUME PlaceInv, UNCHANGED <<db, blobs, todo, plan, avatars>>, stale \cap Users \subseteq stale', DataTyped'
    PROVE  PlaceInv'
<1>1. UNCHANGED <<rows, bind, preset, stamp, face, pictures, gone>>
  BY DEF db, avatars
<1>2. StoreTyped'
  BY <1>1 DEF PlaceInv, StoreTyped, DataTyped
<1>3. Cascaded' /\ ListsShaped'
  BY <1>1 DEF PlaceInv, Cascaded, ListsShaped, Shaped, Ending
<1>4. ASSUME plan.serial
      PROVE  OneAtATime' /\ HeadSafe' /\ RowHasBlob' /\ FaceSafe' /\ AvatarHasPictures'
  <2>1. OneAtATime /\ HeadSafe /\ RowHasBlob /\ FaceSafe /\ AvatarHasPictures
    BY <1>4 DEF PlaceInv, SerialInv
  <2>2. OneAtATime' /\ HeadSafe' /\ RowHasBlob'
    BY <1>1, <2>1 DEF OneAtATime, HeadSafe, Safe, RowHasBlob, Live
  <2>3. FaceSafe'
    BY <1>1, <2>1 DEF FaceSafe, DropsFine, Saves, Droppable, Uploaded, Ending, NextVersion
  <2>4. AvatarHasPictures'
    BY <1>1, <2>1 DEF AvatarHasPictures, Uploaded, PicturesOf, Leaving
  <2> QED BY <2>2, <2>3, <2>4
<1> QED BY <1>2, <1>3, <1>4 DEF PlaceInv, SerialInv

LEMMA NamesApart ==
    /\ "blob" \notin Users /\ "sweep" \notin Users /\ "lookup" \notin Users
    /\ \A p \in Profiles : p \notin Users
BY StoreAssumption DEF Leftovers

LEMMA ExpirePropertiesKeeps ==
    ASSUME PlaceInv, NEW p \in Profiles, ExpireProperties(p), UNCHANGED avatars
    PROVE  PlaceInv'
<1>1. DataTyped'
  BY DEF PlaceInv, StoreTyped, DataTyped, ExpireProperties, db
<1>2. stale \cap Users \subseteq stale'
  BY NamesApart DEF ExpireProperties
<1> QED BY <1>1, <1>2, StillKeeps DEF ExpireProperties

LEMMA ExpireLookupKeeps ==
    ASSUME PlaceInv, ExpireLookup, UNCHANGED avatars
    PROVE  PlaceInv'
<1>1. DataTyped'
  BY DEF PlaceInv, StoreTyped, DataTyped, ExpireLookup, db
<1>2. stale \cap Users \subseteq stale'
  BY NamesApart DEF ExpireLookup
<1> QED BY <1>1, <1>2, StillKeeps DEF ExpireLookup

\* A request that is cut off: an account whose deletion it was is marked.
LEMMA LoseKeeps ==
    ASSUME PlaceInv, NEW c \in Clients, Lose(c), UNCHANGED avatars
    PROVE  PlaceInv'
<1>0. StoreTyped /\ Cascaded /\ SerialInv /\ DataTyped /\ ListsShaped
  BY DEF PlaceInv, StoreTyped, DataTyped
<1>1. /\ UNCHANGED <<rows, bind, preset, stamp, blobs, lookup, props, plan, face, pictures, gone>>
      /\ todo[c] # <<>> /\ faults > 0 /\ faults' = faults - 1
      /\ stale' = stale \cup Profiles \cup Leftovers \cup Unfinished(c)
  BY DEF Lose, db, cache, avatars
<1>2. todo' \in [Clients -> Seq(StoreJobs)] /\ todo'[c] = <<>> /\ \A d \in Clients \ {c} : todo'[d] = todo[d]
  BY <1>0 DEF StoreTyped, Lose, Stop
<1>3. ASSUME NEW i \in DOMAIN todo[c], todo[c][i].j = "deleted"
      PROVE  todo[c][i].u \in Users
  <2>1. PICK x \in StoreJobs : x = todo[c][i] BY <1>0 DEF StoreTyped
  <2>2. x \in UserJob BY <1>3, <2>1, JobKinds
  <2> QED BY <2>1, <2>2 DEF UserJob
<1>4. Unfinished(c) \subseteq Users
  BY <1>3 DEF Unfinished
<1>5. StoreTyped'
  BY <1>0, <1>1, <1>2, <1>4 DEF StoreTyped
<1>6. Cascaded'
  BY <1>0, <1>1 DEF Cascaded
<1>7. ListsShaped'
  <2>1. Shaped(<<>>) BY DEF Shaped
  <2> QED BY <1>0, <1>2, <2>1 DEF ListsShaped, Shaped, Ending
<1>8. ASSUME plan.serial
      PROVE  OneAtATime' /\ HeadSafe' /\ RowHasBlob' /\ FaceSafe' /\ AvatarHasPictures'
  <2>1. OneAtATime /\ RowHasBlob /\ AvatarHasPictures BY <1>0, <1>8 DEF SerialInv
  <2>2. \A d \in Clients : todo'[d] = <<>> BY <1>1, <1>2, <2>1 DEF OneAtATime
  <2>3. OneAtATime' /\ HeadSafe' /\ FaceSafe'
    BY <2>2 DEF OneAtATime, HeadSafe, FaceSafe, DropsFine, Saves
  <2>4. RowHasBlob' BY <1>1, <2>1 DEF RowHasBlob, Live
  <2>5. ASSUME NEW u \in Users \ stale', Leaving(u)
        PROVE  FALSE
    <3>1. PICK d \in Clients : \E i \in DOMAIN todo[d] : todo[d][i].j = "deleted" /\ todo[d][i].u = u
      BY <2>5 DEF Leaving
    <3>2. PICK i \in DOMAIN todo[d] : todo[d][i].j = "deleted" /\ todo[d][i].u = u BY <3>1
    <3>3. d = c BY <1>1, <2>1, <3>2 DEF OneAtATime
    <3>4. u \in Unfinished(c) BY <3>2, <3>3 DEF Unfinished
    <3> QED BY <1>1, <2>5, <3>4
  <2>6. AvatarHasPictures'
    BY <1>1, <1>8, <2>1, <2>5 DEF AvatarHasPictures, Uploaded, PicturesOf
  <2> QED BY <2>3, <2>4, <2>6
<1> QED BY <1>1, <1>5, <1>6, <1>7, <1>8 DEF PlaceInv, SerialInv

\* A request begins with statements that rely on nothing.
LEMMA StartKeeps ==
    ASSUME PlaceInv, NEW c \in Clients, NEW op, NEW s \in Seq(JobsBut(Solo \cup (FaceKinds \ Lone))), s # <<>>, Start(c, op, s),
           \A i \in DOMAIN s : s[i].j \in Lone => Len(s) = 1, UNCHANGED avatars
    PROVE  PlaceInv'
<1>0. StoreTyped /\ Cascaded /\ SerialInv /\ DataTyped /\ ListsShaped
  BY DEF PlaceInv, StoreTyped, DataTyped
<1>1. /\ UNCHANGED <<rows, bind, preset, stamp, blobs, lookup, props, plan, faults, stale, face, pictures, gone>>
      /\ todo[c] = <<>> /\ (plan.serial => \A d \in Clients : todo[d] = <<>>) /\ todo' = [todo EXCEPT ![c] = s]
  BY DEF Start, db, cache, env, avatars
<1>2. s \in Seq(StoreJobs) /\ Len(s) \in DOMAIN s /\ Head(s) = s[1] /\ 1 \in DOMAIN s
  BY DEF JobsBut
<1>3. todo' \in [Clients -> Seq(StoreJobs)] /\ todo'[c] = s /\ \A d \in Clients \ {c} : todo'[d] = todo[d]
  BY <1>0, <1>1, <1>2 DEF StoreTyped
<1>4. \A i \in DOMAIN s : s[i].j \notin Solo /\ s[i].j \notin {"picture", "drop", "save", "deleted"}
  <2>1. \A i \in DOMAIN s : s[i] \in JobsBut(Solo \cup (FaceKinds \ Lone)) OBVIOUS
  <2>2. \A i \in DOMAIN s : s[i].j \notin Solo /\ s[i].j \notin FaceKinds \ Lone
    BY <2>1 DEF JobsBut
  <2> QED BY <2>2 DEF FaceKinds, Lone
<1>5. Shaped(s) /\ Ending(s).j \notin {"picture", "drop", "save", "deleted"} /\ Head(s).j \notin Solo
  BY <1>2, <1>4 DEF Shaped, Ending
<1>6. StoreTyped'
  BY <1>0, <1>1, <1>3 DEF StoreTyped
<1>7. Cascaded'
  BY <1>0, <1>1 DEF Cascaded
<1>8. ListsShaped'
  BY <1>0, <1>3, <1>5 DEF ListsShaped, Shaped, Ending
<1>9. ASSUME plan.serial
      PROVE  OneAtATime' /\ HeadSafe' /\ RowHasBlob' /\ FaceSafe' /\ AvatarHasPictures'
  <2>1. RowHasBlob /\ AvatarHasPictures BY <1>0, <1>9 DEF SerialInv
  <2>2. \A d \in Clients : todo[d] = <<>> /\ (d # c => todo'[d] = <<>>)
    BY <1>1, <1>3, <1>9
  <2>3. OneAtATime' BY <2>2 DEF OneAtATime
  <2>4. HeadSafe' BY <1>3, <1>5, <2>2 DEF HeadSafe, Safe, Solo
  <2>5. FaceSafe' BY <1>3, <1>4, <1>5, <2>2 DEF FaceSafe, DropsFine, Saves, Ending
  <2>6. RowHasBlob' BY <1>1, <2>1 DEF RowHasBlob, Live
  <2>7. \A u \in Users : ~ Leaving(u) BY <2>2 DEF Leaving
  <2>8. AvatarHasPictures'
    BY <1>1, <1>9, <2>1, <2>7 DEF AvatarHasPictures, Uploaded, PicturesOf
  <2> QED BY <2>3, <2>4, <2>5, <2>6, <2>8
<1> QED BY <1>1, <1>6, <1>7, <1>8, <1>9 DEF PlaceInv, SerialInv

-----------------------------------------------------------------------------
(* The requests                                                            *)

\* What a workload consists of.
LEMMA LoadTyped ==
    ASSUME plan \in StoreLoads
    PROVE  /\ plan.users \subseteq Users /\ plan.profiles \subseteq Profiles /\ plan.hashes \subseteq Hashes
           /\ HashesHere \subseteq Hashes /\ SlotsHere \subseteq Slots /\ ModelsHere \subseteq Models
           /\ \A p \in Profiles : OwnerOf[p] \in Users
           /\ \A ty : \A m \in Models : ModelFor(ty, m) \in Models
           /\ Live \subseteq Ids
<1>1. plan \in [ops : SUBSET Ops, serial : BOOLEAN, faults : Nat, legacy : BOOLEAN,
                slim : BOOLEAN, fresh : BOOLEAN, profiles : SUBSET Profiles,
                users : SUBSET Users, hashes : SUBSET Hashes]
  BY StoreAssumption
<1>2. plan.users \subseteq Users /\ plan.profiles \subseteq Profiles /\ plan.hashes \subseteq Hashes
  BY <1>1
<1>3. \A p \in Profiles : OwnerOf[p] \in Users
  BY StoreAssumption
<1> QED BY <1>2, <1>3 DEF HashesHere, SlotsHere, ModelsHere, Models, ModelFor, Live

Begun(c) == \E op : \E s \in Seq(JobsBut(Solo \cup (FaceKinds \ Lone))) :
               s # <<>> /\ (\A i \in DOMAIN s : s[i].j \in Lone => Len(s) = 1) /\ Start(c, op, s)
LEMMA OneBegins ==
    ASSUME NEW c, NEW op, NEW r \in StoreJobs, r.j \notin Solo, r.j \notin FaceKinds \ Lone, Start(c, op, <<r>>)
    PROVE  Begun(c)
<1>1. r \in JobsBut(Solo \cup (FaceKinds \ Lone))
  BY DEF JobsBut
<1>2. <<r>> \in Seq(JobsBut(Solo \cup (FaceKinds \ Lone))) /\ <<r>> # <<>> /\ Len(<<r>>) = 1
  BY <1>1
<1> QED BY <1>2 DEF Begun

LEMMA UploadWardrobeTextureBegins ==
    ASSUME plan \in StoreLoads, NEW c, UploadWardrobeTexture(c)
    PROVE  Begun(c)
<1>1. PICK u \in plan.users, ty \in Types, h \in HashesHere, m \in ModelsHere : Start(c, "upload", <<[j |-> "find", u |-> u, ty |-> ty, src |-> "local", h |-> h,
                          m |-> ModelFor(ty, m), p |-> None, mode |-> "wardrobe"]>>)
  BY DEF UploadWardrobeTexture
<1>2. PICK r : r = [j |-> "find", u |-> u, ty |-> ty, src |-> "local", h |-> h,
                          m |-> ModelFor(ty, m), p |-> None, mode |-> "wardrobe"]
  OBVIOUS
<1>3. r \in StoreJob /\ r.j = "find"
  BY <1>2, LoadTyped DEF StoreJob, Sources
<1>4. r \in StoreJobs /\ r.j \notin Solo /\ r.j \notin FaceKinds \ Lone /\ Start(c, "upload", <<r>>)
  BY <1>1, <1>2, <1>3 DEF StoreJobs, Solo, FaceKinds, Lone
<1> QED BY <1>4, OneBegins

LEMMA UploadTextureBegins ==
    ASSUME plan \in StoreLoads, NEW c, UploadTexture(c)
    PROVE  Begun(c)
<1>1. PICK p \in plan.profiles, ty \in Types, h \in HashesHere, m \in ModelsHere : Start(c, "skin", <<[j |-> "find", u |-> OwnerOf[p], ty |-> ty, src |-> "local", h |-> h,
                        m |-> ModelFor(ty, m), p |-> p, mode |-> "bind"]>>)
  BY DEF UploadTexture
<1>2. PICK r : r = [j |-> "find", u |-> OwnerOf[p], ty |-> ty, src |-> "local", h |-> h,
                        m |-> ModelFor(ty, m), p |-> p, mode |-> "bind"]
  OBVIOUS
<1>3. r \in StoreJob /\ r.j = "find"
  BY <1>2, LoadTyped DEF StoreJob, Sources, BindModes
<1>4. r \in StoreJobs /\ r.j \notin Solo /\ r.j \notin FaceKinds \ Lone /\ Start(c, "skin", <<r>>)
  BY <1>1, <1>2, <1>3 DEF StoreJobs, Solo, FaceKinds, Lone
<1> QED BY <1>4, OneBegins

LEMMA ImportBegins ==
    ASSUME plan \in StoreLoads, NEW c, NEW md \in {"preserve", "apply"}, Import(c, md)
    PROVE  Begun(c)
<1>1. PICK p \in plan.profiles, ty \in Types, h \in HashesHere : Start(c, "import", <<[j |-> "find", u |-> OwnerOf[p], ty |-> ty, src |-> "mojang", h |-> h,
                          m |-> "default", p |-> p, mode |-> md]>>)
  BY DEF Import
<1>2. PICK r : r = [j |-> "find", u |-> OwnerOf[p], ty |-> ty, src |-> "mojang", h |-> h,
                          m |-> "default", p |-> p, mode |-> md]
  OBVIOUS
<1>3. r \in StoreJob /\ r.j = "find"
  BY <1>2, LoadTyped DEF StoreJob, Sources, BindModes, Models
<1>4. r \in StoreJobs /\ r.j \notin Solo /\ r.j \notin FaceKinds \ Lone /\ Start(c, "import", <<r>>)
  BY <1>1, <1>2, <1>3 DEF StoreJobs, Solo, FaceKinds, Lone
<1> QED BY <1>4, OneBegins

LEMMA ReplaceWardrobeTextureBegins ==
    ASSUME plan \in StoreLoads, NEW c, ReplaceWardrobeTexture(c)
    PROVE  Begun(c)
<1>1. PICK u \in plan.users, t \in Live, h \in HashesHere, m \in ModelsHere : Start(c, "replace", <<[j |-> "rread", u |-> u, t |-> t, h |-> h, m |-> m]>>)
  BY DEF ReplaceWardrobeTexture
<1>2. PICK r : r = [j |-> "rread", u |-> u, t |-> t, h |-> h, m |-> m] OBVIOUS
<1>3. r \in RreadJob /\ r.j = "rread"
  BY <1>2, LoadTyped DEF RreadJob
<1>4. r \in StoreJobs /\ r.j \notin Solo /\ r.j \notin FaceKinds \ Lone /\ Start(c, "replace", <<r>>)
  BY <1>1, <1>2, <1>3 DEF StoreJobs, Solo, FaceKinds, Lone
<1> QED BY <1>4, OneBegins

LEMMA UpdateWardrobeTextureBegins ==
    ASSUME plan \in StoreLoads, NEW c, UpdateWardrobeTexture(c)
    PROVE  Begun(c)
<1>1. PICK u \in plan.users, t \in Live, m \in Models : Start(c, "metadata", <<[j |-> "mread", u |-> u, t |-> t, m |-> m]>>)
  BY DEF UpdateWardrobeTexture
<1>2. PICK r : r = [j |-> "mread", u |-> u, t |-> t, m |-> m] OBVIOUS
<1>3. r \in MreadJob /\ r.j = "mread"
  BY <1>2, LoadTyped DEF MreadJob
<1>4. r \in StoreJobs /\ r.j \notin Solo /\ r.j \notin FaceKinds \ Lone /\ Start(c, "metadata", <<r>>)
  BY <1>1, <1>2, <1>3 DEF StoreJobs, Solo, FaceKinds, Lone
<1> QED BY <1>4, OneBegins

LEMMA CopyPublicTextureBegins ==
    ASSUME plan \in StoreLoads, NEW c, CopyPublicTexture(c)
    PROVE  Begun(c)
<1>1. PICK u \in plan.users, t \in Live : Start(c, "copy", <<[j |-> "cread", u |-> u, t |-> t]>>)
  BY DEF CopyPublicTexture
<1>2. PICK r : r = [j |-> "cread", u |-> u, t |-> t] OBVIOUS
<1>3. r \in OwnJob /\ r.j = "cread"
  BY <1>2, LoadTyped DEF OwnJob
<1>4. r \in StoreJobs /\ r.j \notin Solo /\ r.j \notin FaceKinds \ Lone /\ Start(c, "copy", <<r>>)
  BY <1>1, <1>2, <1>3 DEF StoreJobs, Solo, FaceKinds, Lone
<1> QED BY <1>4, OneBegins

LEMMA DeleteWardrobeTextureBegins ==
    ASSUME plan \in StoreLoads, NEW c, DeleteWardrobeTexture(c)
    PROVE  Begun(c)
<1>1. PICK u \in plan.users, t \in Live : Start(c, "delete", <<[j |-> "wlist", u |-> u, t |-> t]>>)
  BY DEF DeleteWardrobeTexture
<1>2. PICK r : r = [j |-> "wlist", u |-> u, t |-> t] OBVIOUS
<1>3. r \in OwnJob /\ r.j = "wlist"
  BY <1>2, LoadTyped DEF OwnJob
<1>4. r \in StoreJobs /\ r.j \notin Solo /\ r.j \notin FaceKinds \ Lone /\ Start(c, "delete", <<r>>)
  BY <1>1, <1>2, <1>3 DEF StoreJobs, Solo, FaceKinds, Lone
<1> QED BY <1>4, OneBegins

LEMMA DeleteLibraryTextureBegins ==
    ASSUME plan \in StoreLoads, NEW c, DeleteLibraryTexture(c)
    PROVE  Begun(c)
<1>1. PICK t \in Live : Start(c, "remove", <<[j |-> "aread", t |-> t]>>)
  BY DEF DeleteLibraryTexture
<1>2. PICK r : r = [j |-> "aread", t |-> t] OBVIOUS
<1>3. r \in TexJob /\ r.j = "aread"
  BY <1>2, LoadTyped DEF TexJob
<1>4. r \in StoreJobs /\ r.j \notin Solo /\ r.j \notin FaceKinds \ Lone /\ Start(c, "remove", <<r>>)
  BY <1>1, <1>2, <1>3 DEF StoreJobs, Solo, FaceKinds, Lone
<1> QED BY <1>4, OneBegins

LEMMA BindProfileTextureBegins ==
    ASSUME plan \in StoreLoads, NEW c, BindProfileTexture(c)
    PROVE  Begun(c)
<1>1. PICK s \in SlotsHere, t \in Live : Start(c, "bind", <<[j |-> "bread", s |-> s, t |-> t]>>)
  BY DEF BindProfileTexture
<1>2. PICK r : r = [j |-> "bread", s |-> s, t |-> t] OBVIOUS
<1>3. r \in BindJob /\ r.j = "bread"
  BY <1>2, LoadTyped DEF BindJob
<1>4. r \in StoreJobs /\ r.j \notin Solo /\ r.j \notin FaceKinds \ Lone /\ Start(c, "bind", <<r>>)
  BY <1>1, <1>2, <1>3 DEF StoreJobs, Solo, FaceKinds, Lone
<1> QED BY <1>4, OneBegins

LEMMA UnbindBegins ==
    ASSUME plan \in StoreLoads, NEW c, Unbind(c)
    PROVE  Begun(c)
<1>1. PICK s \in SlotsHere : Start(c, "unbind", <<[j |-> "ufind", s |-> s, all |-> FALSE]>>)
  BY DEF Unbind
<1>2. PICK r : r = [j |-> "ufind", s |-> s, all |-> FALSE] OBVIOUS
<1>3. r \in UfindJob /\ r.j = "ufind"
  BY <1>2, LoadTyped DEF UfindJob
<1>4. r \in StoreJobs /\ r.j \notin Solo /\ r.j \notin FaceKinds \ Lone /\ Start(c, "unbind", <<r>>)
  BY <1>1, <1>2, <1>3 DEF StoreJobs, Solo, FaceKinds, Lone
<1> QED BY <1>4, OneBegins

LEMMA DropOfficialTextureBegins ==
    ASSUME plan \in StoreLoads, NEW c, DropOfficialTexture(c)
    PROVE  Begun(c)
<1>1. PICK s \in SlotsHere : Start(c, "dropOfficial", <<[j |-> "ofind", s |-> s]>>)
  BY DEF DropOfficialTexture
<1>2. PICK r : r = [j |-> "ofind", s |-> s] OBVIOUS
<1>3. r \in OfindJob /\ r.j = "ofind"
  BY <1>2, LoadTyped DEF OfindJob
<1>4. r \in StoreJobs /\ r.j \notin Solo /\ r.j \notin FaceKinds \ Lone /\ Start(c, "dropOfficial", <<r>>)
  BY <1>1, <1>2, <1>3 DEF StoreJobs, Solo, FaceKinds, Lone
<1> QED BY <1>4, OneBegins

LEMMA PurgeProfileBegins ==
    ASSUME plan \in StoreLoads, NEW c, PurgeProfile(c)
    PROVE  Begun(c)
<1>1. PICK p \in plan.profiles : Start(c, "purgeProfile", <<[j |-> "plist", p |-> p]>>)
  BY DEF PurgeProfile
<1>2. PICK r : r = [j |-> "plist", p |-> p] OBVIOUS
<1>3. r \in ProfileJob /\ r.j = "plist"
  BY <1>2, LoadTyped DEF ProfileJob
<1>4. r \in StoreJobs /\ r.j \notin Solo /\ r.j \notin FaceKinds \ Lone /\ Start(c, "purgeProfile", <<r>>)
  BY <1>1, <1>2, <1>3 DEF StoreJobs, Solo, FaceKinds, Lone
<1> QED BY <1>4, OneBegins

LEMMA DeleteUserTexturesBegins ==
    ASSUME plan \in StoreLoads, NEW c, DeleteUserTextures(c)
    PROVE  Begun(c)
<1>1. PICK u \in plan.users : Start(c, "purgeUser", <<[j |-> "ulist", u |-> u]>>)
  BY DEF DeleteUserTextures
<1>2. PICK r : r = [j |-> "ulist", u |-> u] OBVIOUS
<1>3. r \in UserJob /\ r.j = "ulist"
  BY <1>2, LoadTyped DEF UserJob
<1>4. r \in StoreJobs /\ r.j \notin Solo /\ r.j \notin FaceKinds \ Lone /\ Start(c, "purgeUser", <<r>>)
  BY <1>1, <1>2, <1>3 DEF StoreJobs, Solo, FaceKinds, Lone
<1> QED BY <1>4, OneBegins

LEMMA ReadTextureBegins ==
    ASSUME plan \in StoreLoads, NEW c, ReadTexture(c)
    PROVE  Begun(c)
<1>1. PICK h \in plan.hashes \ lookup : Start(c, "blob", <<[j |-> "bfind", h |-> h]>>)
  BY DEF ReadTexture
<1>2. PICK r : r = [j |-> "bfind", h |-> h] OBVIOUS
<1>3. r \in HashJob /\ r.j = "bfind"
  BY <1>2, LoadTyped DEF HashJob
<1>4. r \in StoreJobs /\ r.j \notin Solo /\ r.j \notin FaceKinds \ Lone /\ Start(c, "blob", <<r>>)
  BY <1>1, <1>2, <1>3 DEF StoreJobs, Solo, FaceKinds, Lone
<1> QED BY <1>4, OneBegins

LEMMA UploadAvatarBegins ==
    ASSUME plan \in StoreLoads, NEW c, UploadAvatar(c)
    PROVE  Begun(c)
<1>1. PICK u \in plan.users : Start(c, "avatar", <<[j |-> "face", u |-> u]>>)
  BY DEF UploadAvatar
<1>2. PICK r : r = [j |-> "face", u |-> u] OBVIOUS
<1>3. r \in UserJob /\ r.j = "face"
  BY <1>2, LoadTyped DEF UserJob
<1>4. r \in StoreJobs /\ r.j \notin Solo /\ r.j \notin FaceKinds \ Lone /\ Start(c, "avatar", <<r>>)
  BY <1>1, <1>2, <1>3 DEF StoreJobs, Solo, FaceKinds, Lone
<1> QED BY <1>4, OneBegins

LEMMA PutAvatarSourceBegins ==
    ASSUME plan \in StoreLoads, NEW c, PutAvatarSource(c)
    PROVE  Begun(c)
<1>1. PICK u \in plan.users, s \in AvatarSource \ {"upload"} : Start(c, "source", <<[j |-> "source", u |-> u, source |-> s]>>)
  BY DEF PutAvatarSource
<1>2. PICK r : r = [j |-> "source", u |-> u, source |-> s] OBVIOUS
<1>3. r \in SourceJob /\ r.j = "source"
  BY <1>2, LoadTyped DEF SourceJob
<1>4. r \in StoreJobs /\ r.j \notin Solo /\ r.j \notin FaceKinds \ Lone /\ Start(c, "source", <<r>>)
  BY <1>1, <1>2, <1>3 DEF StoreJobs, Solo, FaceKinds, Lone
<1> QED BY <1>4, OneBegins

LEMMA PatchProfileBegins ==
    ASSUME plan \in StoreLoads, NEW c, PatchProfile(c)
    PROVE  Begun(c)
<1>1. PICK u \in plan.users : Start(c, "nickname", <<[j |-> "nickname", u |-> u]>>)
  BY DEF PatchProfile
<1>2. PICK r : r = [j |-> "nickname", u |-> u] OBVIOUS
<1>3. r \in UserJob /\ r.j = "nickname"
  BY <1>2, LoadTyped DEF UserJob
<1>4. r \in StoreJobs /\ r.j \notin Solo /\ r.j \notin FaceKinds \ Lone /\ Start(c, "nickname", <<r>>)
  BY <1>1, <1>2, <1>3 DEF StoreJobs, Solo, FaceKinds, Lone
<1> QED BY <1>4, OneBegins

LEMMA DeleteUserBegins ==
    ASSUME plan \in StoreLoads, NEW c, DeleteUser(c)
    PROVE  Begun(c)
<1>1. PICK u \in plan.users \ gone : Start(c, "account", <<[j |-> "leave", u |-> u]>>)
  BY DEF DeleteUser
<1>2. PICK r : r = [j |-> "leave", u |-> u] OBVIOUS
<1>3. r \in UserJob /\ r.j = "leave"
  BY <1>2, LoadTyped DEF UserJob
<1>4. r \in StoreJobs /\ r.j \notin Solo /\ r.j \notin FaceKinds \ Lone /\ Start(c, "account", <<r>>)
  BY <1>1, <1>2, <1>3 DEF StoreJobs, Solo, FaceKinds, Lone
<1> QED BY <1>4, OneBegins

LEMMA ReadPropertiesBegins ==
    ASSUME StoreTyped, NEW c, ReadProperties(c)
    PROVE  Begun(c)
<1>1. PICK p \in plan.profiles : Start(c, "properties", <<[j |-> "pread", p |-> p, stamp |-> stamp[p]]>>)
  BY DEF ReadProperties
<1>2. PICK r : r = [j |-> "pread", p |-> p, stamp |-> stamp[p]] OBVIOUS
<1>3. r \in PreadJob /\ r.j = "pread"
  <2>1. p \in Profiles /\ stamp[p] \in 0 .. MaxStamp BY LoadTyped DEF StoreTyped
  <2> QED BY <1>2, <2>1 DEF PreadJob
<1>4. r \in StoreJobs /\ r.j \notin Solo /\ r.j \notin FaceKinds \ Lone /\ Start(c, "properties", <<r>>)
  BY <1>1, <1>2, <1>3 DEF StoreJobs, Solo, FaceKinds, Lone
<1> QED BY <1>4, OneBegins

LEMMA ApplyLocalPresetsBegins ==
    ASSUME plan \in StoreLoads, NEW c, ApplyLocalPresets(c)
    PROVE  Begun(c)
<1>1. PICK p \in plan.profiles : Start(c, "presets", <<[j |-> "preset", s |-> <<p, "skin">>], [j |-> "preset", s |-> <<p, "cape">>]>>)
  BY DEF ApplyLocalPresets
<1>2. PICK r : r = [j |-> "preset", s |-> <<p, "skin">>] OBVIOUS
<1>3. PICK z : z = [j |-> "preset", s |-> <<p, "cape">>] OBVIOUS
<1>4. r \in PresetJob /\ z \in PresetJob /\ r = [j |-> "preset", s |-> <<p, "skin">>] /\ z = [j |-> "preset", s |-> <<p, "cape">>]
  BY <1>2, <1>3, LoadTyped DEF PresetJob
<1>5. r \in StoreJobs /\ r.j \notin Solo \cup FaceKinds
  BY <1>4 DEF StoreJobs, Solo, FaceKinds, Lone
<1>6. z \in StoreJobs /\ z.j \notin Solo \cup FaceKinds
  BY <1>4 DEF StoreJobs, Solo, FaceKinds, Lone
<1>7. r \in JobsBut(Solo \cup (FaceKinds \ Lone)) /\ z \in JobsBut(Solo \cup (FaceKinds \ Lone))
  BY <1>5, <1>6 DEF JobsBut
<1>8. <<r, z>> \in Seq(JobsBut(Solo \cup (FaceKinds \ Lone))) /\ <<r, z>> # <<>>
  BY <1>7
<1>10. \A i \in DOMAIN <<r, z>> : <<r, z>>[i].j \notin Lone
  BY <1>5, <1>6 DEF FaceKinds, Lone
<1>9. Start(c, "presets", <<r, z>>)
  BY <1>1, <1>4
<1> QED BY <1>8, <1>9, <1>10 DEF Begun

LEMMA DeleteTexturesByHashBegins ==
    ASSUME plan \in StoreLoads, NEW c, DeleteTexturesByHash(c)
    PROVE  Begun(c)
<1>1. PICK h \in plan.hashes : Start(c, "purgeHash", <<[j |-> "hlist", h |-> h], [j |-> "hdel", h |-> h]>>)
  BY DEF DeleteTexturesByHash
<1>2. PICK r : r = [j |-> "hlist", h |-> h] OBVIOUS
<1>3. PICK z : z = [j |-> "hdel", h |-> h] OBVIOUS
<1>4. r \in HashJob /\ z \in HashJob /\ r = [j |-> "hlist", h |-> h] /\ z = [j |-> "hdel", h |-> h]
  BY <1>2, <1>3, LoadTyped DEF HashJob
<1>5. r \in StoreJobs /\ r.j \notin Solo \cup FaceKinds
  BY <1>4 DEF StoreJobs, Solo, FaceKinds, Lone
<1>6. z \in StoreJobs /\ z.j \notin Solo \cup FaceKinds
  BY <1>4 DEF StoreJobs, Solo, FaceKinds, Lone
<1>7. r \in JobsBut(Solo \cup (FaceKinds \ Lone)) /\ z \in JobsBut(Solo \cup (FaceKinds \ Lone))
  BY <1>5, <1>6 DEF JobsBut
<1>8. <<r, z>> \in Seq(JobsBut(Solo \cup (FaceKinds \ Lone))) /\ <<r, z>> # <<>>
  BY <1>7
<1>10. \A i \in DOMAIN <<r, z>> : <<r, z>>[i].j \notin Lone
  BY <1>5, <1>6 DEF FaceKinds, Lone
<1>9. Start(c, "purgeHash", <<r, z>>)
  BY <1>1, <1>4
<1> QED BY <1>8, <1>9, <1>10 DEF Begun

LEMMA TextureCleanupBegins ==
    ASSUME plan \in StoreLoads, NEW c, TextureCleanup(c)
    PROVE  Begun(c)
<1>1. Start(c, "maintain", <<[j |-> "glist"], [j |-> "klist"]>>)
  BY DEF TextureCleanup
<1>2. PICK r : r = [j |-> "glist"] OBVIOUS
<1>3. PICK z : z = [j |-> "klist"] OBVIOUS
<1>4. r \in BareJob /\ z \in BareJob /\ r = [j |-> "glist"] /\ z = [j |-> "klist"]
  BY <1>2, <1>3, LoadTyped DEF BareJob
<1>5. r \in StoreJobs /\ r.j \notin Solo \cup FaceKinds
  BY <1>4 DEF StoreJobs, Solo, FaceKinds, Lone
<1>6. z \in StoreJobs /\ z.j \notin Solo \cup FaceKinds
  BY <1>4 DEF StoreJobs, Solo, FaceKinds, Lone
<1>7. r \in JobsBut(Solo \cup (FaceKinds \ Lone)) /\ z \in JobsBut(Solo \cup (FaceKinds \ Lone))
  BY <1>5, <1>6 DEF JobsBut
<1>8. <<r, z>> \in Seq(JobsBut(Solo \cup (FaceKinds \ Lone))) /\ <<r, z>> # <<>>
  BY <1>7
<1>10. \A i \in DOMAIN <<r, z>> : <<r, z>>[i].j \notin Lone
  BY <1>5, <1>6 DEF FaceKinds, Lone
<1>9. Start(c, "maintain", <<r, z>>)
  BY <1>1, <1>4
<1> QED BY <1>8, <1>9, <1>10 DEF Begun

LEMMA RequestBegins ==
    ASSUME StoreTyped, NEW c, Request(c)
    PROVE  Begun(c)
<1>0. plan \in StoreLoads
  BY DEF StoreTyped
<1>1. UploadWardrobeTexture(c) => Begun(c)
  BY <1>0, UploadWardrobeTextureBegins
<1>2. UploadTexture(c) => Begun(c)
  BY <1>0, UploadTextureBegins
<1>3. RefreshOfficial(c) \/ ApplyOfficial(c) => Begun(c)
  <2>1. RefreshOfficial(c) => Import(c, "preserve") BY DEF RefreshOfficial
  <2>2. ApplyOfficial(c) => Import(c, "apply") BY DEF ApplyOfficial
  <2> QED BY <1>0, <2>1, <2>2, ImportBegins
<1>4. ReplaceWardrobeTexture(c) => Begun(c)
  BY <1>0, ReplaceWardrobeTextureBegins
<1>5. UpdateWardrobeTexture(c) => Begun(c)
  BY <1>0, UpdateWardrobeTextureBegins
<1>6. CopyPublicTexture(c) => Begun(c)
  BY <1>0, CopyPublicTextureBegins
<1>7. DeleteWardrobeTexture(c) => Begun(c)
  BY <1>0, DeleteWardrobeTextureBegins
<1>8. DeleteLibraryTexture(c) => Begun(c)
  BY <1>0, DeleteLibraryTextureBegins
<1>9. BindProfileTexture(c) => Begun(c)
  BY <1>0, BindProfileTextureBegins
<1>10. UnbindProfileTexture(c) \/ DeleteTexture(c) \/ AdminDeleteTexture(c) => Begun(c)
  BY <1>0, UnbindBegins DEF UnbindProfileTexture, DeleteTexture, AdminDeleteTexture
<1>11. ApplyLocalPresets(c) => Begun(c)
  BY <1>0, ApplyLocalPresetsBegins
<1>12. DropOfficialTexture(c) => Begun(c)
  BY <1>0, DropOfficialTextureBegins
<1>13. DeleteTexturesByHash(c) => Begun(c)
  BY <1>0, DeleteTexturesByHashBegins
<1>14. DeleteProfile(c) \/ AdminDeleteProfile(c) => Begun(c)
  BY <1>0, PurgeProfileBegins DEF DeleteProfile, AdminDeleteProfile
<1>15. DeleteUserTextures(c) => Begun(c)
  BY <1>0, DeleteUserTexturesBegins
<1>16. TextureCleanup(c) => Begun(c)
  BY <1>0, TextureCleanupBegins
<1>17. ReadProperties(c) => Begun(c)
  BY ReadPropertiesBegins
<1>18. ReadTexture(c) => Begun(c)
  BY <1>0, ReadTextureBegins
<1> QED
  BY <1>1, <1>2, <1>3, <1>4, <1>5, <1>6, <1>7, <1>8, <1>9, <1>10, <1>11, <1>12, <1>13, <1>14, <1>15, <1>16, <1>17,
     <1>18 DEF Request

LEMMA AvatarRequestBegins ==
    ASSUME StoreTyped, NEW c, AvatarRequest(c)
    PROVE  Begun(c) /\ UNCHANGED avatars
<1>0. plan \in StoreLoads
  BY DEF StoreTyped
<1>1. UploadAvatar(c) => Begun(c)
  BY <1>0, UploadAvatarBegins
<1>2. PutAvatarSource(c) => Begun(c)
  BY <1>0, PutAvatarSourceBegins
<1>3. PatchProfile(c) => Begun(c)
  BY <1>0, PatchProfileBegins
<1>4. DeleteUser(c) => Begun(c)
  BY <1>0, DeleteUserBegins
<1> QED BY <1>1, <1>2, <1>3, <1>4 DEF AvatarRequest

LEMMA BegunKeeps ==
    ASSUME PlaceInv, NEW c \in Clients, Begun(c), UNCHANGED avatars
    PROVE  PlaceInv'
<1>1. PICK op : \E s \in Seq(JobsBut(Solo \cup (FaceKinds \ Lone))) :
               s # <<>> /\ (\A i \in DOMAIN s : s[i].j \in Lone => Len(s) = 1) /\ Start(c, op, s)
  BY DEF Begun
<1>2. PICK s \in Seq(JobsBut(Solo \cup (FaceKinds \ Lone))) :
               s # <<>> /\ (\A i \in DOMAIN s : s[i].j \in Lone => Len(s) = 1) /\ Start(c, op, s)
  BY <1>1
<1> QED BY <1>2, StartKeeps

-----------------------------------------------------------------------------
(* Every step of TextureStore                                              *)

LEMMA WorkKeeps ==
    ASSUME PlaceInv, NEW c \in Clients, Work(c), UNCHANGED avatars
    PROVE  PlaceInv'
<1>1. FindReusable(c) => PlaceInv'
  BY FindReusableMoves, ReadKeeps DEF FindReusable, At
<1>2. FindPrevious(c) => PlaceInv'
  BY FindPreviousMoves, ReadKeeps DEF FindPrevious, At
<1>3. BindRead(c) => PlaceInv'
  BY BindReadMoves, ReadKeeps DEF BindRead, At
<1>4. ApplyPreset(c) => PlaceInv'
  BY ApplyPresetMoves, ReadKeeps DEF ApplyPreset, At
<1>5. ReplaceRead(c) => PlaceInv'
  BY ReplaceReadMoves, ReadKeeps DEF ReplaceRead, At
<1>6. ReplaceList(c) => PlaceInv'
  BY ReplaceListMoves, ReadKeeps DEF ReplaceList, At
<1>7. ReplaceReread(c) => PlaceInv'
  BY ReplaceRereadMoves, ReadKeeps DEF ReplaceReread, At
<1>8. MetadataRead(c) => PlaceInv'
  BY MetadataReadMoves, ReadKeeps DEF MetadataRead, At
<1>9. MetadataList(c) => PlaceInv'
  BY MetadataListMoves, ReadKeeps DEF MetadataList, At
<1>10. CopyRead(c) => PlaceInv'
  BY CopyReadMoves, ReadKeeps DEF CopyRead, At
<1>11. CopyCheck(c) => PlaceInv'
  BY CopyCheckMoves, ReadKeeps DEF CopyCheck, At
<1>12. WardrobeList(c) => PlaceInv'
  BY WardrobeListMoves, ReadKeeps DEF WardrobeList, At
<1>13. WardrobeFind(c) => PlaceInv'
  BY WardrobeFindMoves, ReadKeeps DEF WardrobeFind, At
<1>14. AdminRead(c) => PlaceInv'
  BY AdminReadMoves, ReadKeeps DEF AdminRead, At
<1>15. UserList(c) => PlaceInv'
  BY UserListMoves, ReadKeeps DEF UserList, At
<1>16. UnbindFind(c) => PlaceInv'
  BY UnbindFindMoves, ReadKeeps DEF UnbindFind, At
<1>17. OfficialFind(c) => PlaceInv'
  BY OfficialFindMoves, ReadKeeps DEF OfficialFind, At
<1>18. ProfileList(c) => PlaceInv'
  BY ProfileListMoves, ReadKeeps DEF ProfileList, At
<1>19. ProfileEnd(c) => PlaceInv'
  BY ProfileEndMoves, ReadKeeps DEF ProfileEnd, At
<1>20. HashList(c) => PlaceInv'
  BY HashListMoves, ReadKeeps DEF HashList, At
<1>21. RegisterList(c) => PlaceInv'
  BY RegisterListMoves, ReadKeeps DEF RegisterList, At
<1>22. RegisterFind(c) => PlaceInv'
  BY RegisterFindMoves, ReadKeeps DEF RegisterFind, At
<1>23. CountAsset(c) => PlaceInv'
  BY CountAssetMoves, ReadKeeps DEF CountAsset, At
<1>24. CountBlob(c) => PlaceInv'
  BY CountBlobMoves, ReadKeeps DEF CountBlob, At
<1>25. PropertiesRead(c) => PlaceInv'
  BY PropertiesReadMoves, ReadKeeps DEF PropertiesRead, At
<1>26. BlobFind(c) => PlaceInv'
  BY BlobFindMoves, ReadKeeps DEF BlobFind, At
<1>27. PutFile(c) \/ CreateTexture(c) \/ UpsertBinding(c) \/
        RememberPreset(c) \/ ReplacePut(c) \/ ReplaceCas(c) => PlaceInv'
  BY PutFileKeeps, CreateTextureKeeps, UpsertBindingKeeps, RememberPresetKeeps, ReplacePutKeeps, ReplaceCasKeeps
<1>28. MetadataWrite(c) \/ CopyCreate(c) \/ WardrobeDelete(c) \/
        AdminUnbind(c) \/ UnbindDelete(c) \/ HashDelete(c) => PlaceInv'
  BY MetadataWriteKeeps, CopyCreateKeeps, WardrobeDeleteKeeps, AdminUnbindKeeps, UnbindDeleteKeeps, HashDeleteKeeps
<1>29. RegisterMark(c) \/ RegisterBind(c) \/ RegisterDelete(c) \/
        OrphanList(c) \/ OrphanEnd(c) \/ DeleteAsset(c) => PlaceInv'
  BY RegisterMarkKeeps, RegisterBindKeeps, RegisterDeleteKeeps, OrphanListKeeps, OrphanEndKeeps, DeleteAssetKeeps
<1>30. DeleteBlob(c) \/ InvalidateProperties(c) \/ TouchProfile(c) \/
        InvalidateLookup(c) \/ PropertiesSet(c) \/ BlobSet(c) => PlaceInv'
  BY DeleteBlobKeeps, InvalidatePropertiesKeeps, TouchProfileKeeps, InvalidateLookupKeeps, PropertiesSetKeeps, BlobSetKeeps
<1> QED BY <1>1, <1>2, <1>3, <1>4, <1>5, <1>6, <1>7, <1>8, <1>9, <1>10, <1>11, <1>12, <1>13, <1>14, <1>15, <1>16,
     <1>17, <1>18, <1>19, <1>20, <1>21, <1>22, <1>23, <1>24, <1>25, <1>26, <1>27, <1>28, <1>29, <1>30 DEF Work

LEMMA TextureNextKeeps ==
    ASSUME PlaceInv, TextureNext, UNCHANGED avatars
    PROVE  PlaceInv'
<1>0. StoreTyped
  BY DEF PlaceInv
<1>1. ASSUME NEW c \in Clients, Request(c) \/ Work(c) \/ CreateFails(c) \/ DeleteBlobFails(c) \/ Lose(c)
      PROVE  PlaceInv'
  <2>1. Request(c) => PlaceInv' BY <1>0, RequestBegins, BegunKeeps
  <2>2. Work(c) => PlaceInv' BY WorkKeeps
  <2>3. CreateFails(c) \/ DeleteBlobFails(c) \/ Lose(c) => PlaceInv'
    BY CreateFailsKeeps, DeleteBlobFailsKeeps, LoseKeeps
  <2> QED BY <1>1, <2>1, <2>2, <2>3
<1>2. ASSUME NEW p \in Profiles, ExpireProperties(p)
      PROVE  PlaceInv'
  BY <1>2, ExpirePropertiesKeeps
<1>3. ExpireLookup => PlaceInv'
  BY ExpireLookupKeeps
<1> QED BY <1>1, <1>2, <1>3 DEF TextureNext

-----------------------------------------------------------------------------
(* The statements of an avatar                                             *)

LEMMA TexturesStay ==
    ASSUME PlaceInv, UNCHANGED <<textures, plan>>, faults' \in Nat, stale' \subseteq Profiles \cup Users \cup Leftovers
    PROVE  DataTyped' /\ Cascaded' /\ (plan.serial => RowHasBlob')
<1>1. UNCHANGED <<rows, bind, preset, stamp, blobs, lookup, props, plan>>
  BY DEF textures, db, cache
<1> QED BY <1>1 DEF PlaceInv, StoreTyped, DataTyped, Cascaded, SerialInv, RowHasBlob, Live

\* A statement of an avatar: the list it leaves, and what that list promises.
LEMMA AvatarKeeps ==
    ASSUME PlaceInv, NEW c \in Clients, todo[c] # <<>>, NEW w \in Seq(StoreJobs), todo' = [todo EXCEPT ![c] = w],
           Shaped(w), w # <<>> => Head(w).j \notin Solo, plan' = plan,
           DataTyped', Cascaded', plan.serial => RowHasBlob',
           face' \in [Users -> Face \cup {None}], gone' \subseteq Users,
           plan.serial => DropsFine(w)' /\ Saves(w)' /\ AvatarHasPictures'
    PROVE  PlaceInv'
<1>0. StoreTyped /\ Cascaded /\ SerialInv /\ ListsShaped
  BY DEF PlaceInv
<1>1. todo' \in [Clients -> Seq(StoreJobs)] /\ todo'[c] = w /\ \A d \in Clients \ {c} : todo'[d] = todo[d]
  BY <1>0 DEF StoreTyped
<1>2. StoreTyped'
  BY <1>1 DEF StoreTyped, DataTyped
<1>3. ListsShaped'
  BY <1>0, <1>1 DEF ListsShaped, Shaped, Ending
<1>4. ASSUME plan.serial
      PROVE  OneAtATime' /\ HeadSafe' /\ FaceSafe'
  <2>1. \A d \in Clients \ {c} : todo'[d] = <<>>
    BY <1>0, <1>1, <1>4 DEF SerialInv, OneAtATime
  <2>2. OneAtATime' BY <2>1 DEF OneAtATime
  <2>3. HeadSafe' BY <1>1, <2>1 DEF HeadSafe, Safe, Solo
  <2>4. \A d \in Clients \ {c} : DropsFine(todo[d])' /\ Saves(todo[d])'
    BY <2>1 DEF DropsFine, Saves
  <2>5. DropsFine(todo[c])' /\ Saves(todo[c])'
    BY <1>1, <1>4 DEF DropsFine, Saves, Droppable, Uploaded, Ending
  <2> QED BY <2>2, <2>3, <2>4, <2>5 DEF FaceSafe
<1> QED BY <1>2, <1>3, <1>4 DEF PlaceInv, SerialInv

\* Only a list that ends with it deletes an account.
LEMMA LeavingEnds ==
    ASSUME StoreTyped, ListsShaped, OneAtATime, NEW c \in Clients, todo[c] # <<>>, NEW u, Leaving(u)
    PROVE  /\ Ending(todo[c]).j = "deleted" /\ Ending(todo[c]).u = u
           /\ \A i \in DOMAIN todo[c] : todo[c][i].j \in LeaveKinds
           /\ Head(todo[c]).j \in LeaveKinds
<1>1. PICK d \in Clients : \E i \in DOMAIN todo[d] : todo[d][i].j = "deleted" /\ todo[d][i].u = u
  BY DEF Leaving
<1>2. PICK i \in DOMAIN todo[d] : todo[d][i].j = "deleted" /\ todo[d][i].u = u
  BY <1>1
<1>3. d = c
  BY <1>2 DEF OneAtATime
<1>4. i = Len(todo[c]) /\ Ending(todo[c]).j = "deleted" /\ Ending(todo[c]).u = u
  BY <1>2, <1>3 DEF ListsShaped, Shaped, Ending
<1>5. \A k \in DOMAIN todo[c] : todo[c][k].j \in LeaveKinds
  BY <1>4 DEF ListsShaped, Shaped
<1>6. 1 \in DOMAIN todo[c] /\ Head(todo[c]) = todo[c][1]
  BY DEF StoreTyped
<1> QED BY <1>4, <1>5, <1>6

\* The rest of a list keeps its shape.
LEMMA TailShaped ==
    ASSUME NEW q \in Seq(StoreJobs), q # <<>>, Shaped(q)
    PROVE  /\ Tail(q) \in Seq(StoreJobs) /\ Shaped(Tail(q)) /\ Len(Tail(q)) = Len(q) - 1
           /\ \A i \in DOMAIN Tail(q) : i + 1 \in DOMAIN q /\ Tail(q)[i] = q[i + 1] /\ Tail(q)[i].j \notin Solo
           /\ Tail(q) # <<>> => /\ Ending(Tail(q)) = Ending(q) /\ Head(Tail(q)).j \notin Solo
                                /\ Len(q) > 1
           /\ Head(q) = q[1] /\ 1 \in DOMAIN q
<1>1. PICK r : r = Tail(q) OBVIOUS
<1>2. r \in Seq(StoreJobs) /\ Len(r) = Len(q) - 1 /\ \A i \in DOMAIN r : i + 1 \in DOMAIN q /\ r[i] = q[i + 1]
  BY <1>1
<1>3. r # <<>> => Len(r) \in DOMAIN r /\ Len(r) + 1 = Len(q) /\ Head(r) = r[1] /\ 1 \in DOMAIN r /\ Len(q) > 1
  BY <1>2
<1>4. r # <<>> => Ending(r) = Ending(q)
  BY <1>2, <1>3 DEF Ending
<1>5. \A i \in DOMAIN r : i + 1 > 1 /\ i + 1 <= Len(q)
  BY <1>2
<1>6. \A i \in DOMAIN r : r[i].j \notin Solo
  BY <1>2, <1>5 DEF Shaped
<1>7. \A i \in DOMAIN r : r[i].j \in {"save", "deleted"} => i = Len(r)
  <2>1. \A i \in DOMAIN r : r[i].j \in {"save", "deleted"} => i + 1 = Len(q)
    BY <1>2 DEF Shaped
  <2>2. \A i \in DOMAIN r : i \in Nat BY <1>2
  <2> QED BY <1>2, <2>1, <2>2
<1>8. \A i \in DOMAIN r : r[i].j = "picture" => Ending(r).j = "save"
  BY <1>2, <1>4 DEF Shaped
<1>9. \A i \in DOMAIN r : r[i].j \in Lone => Len(r) = 1
  <2>1. \A i \in DOMAIN r : r[i].j \in Lone => Len(q) = 1 BY <1>2 DEF Shaped
  <2> QED BY <1>2, <2>1
<1>10. r # <<>> /\ Ending(r).j = "save" =>
          \A i \in DOMAIN r : i < Len(r) => r[i].j = "picture" /\ r[i].u = Ending(r).u /\ r[i].v = Ending(r).v
  <2> SUFFICES ASSUME r # <<>>, Ending(r).j = "save", NEW i \in DOMAIN r, i < Len(r)
               PROVE  r[i].j = "picture" /\ r[i].u = Ending(r).u /\ r[i].v = Ending(r).v
    OBVIOUS
  <2>0. i \in Nat /\ Len(r) \in Nat /\ Len(q) \in Nat /\ i < Len(r) BY <1>2
  <2>1. Ending(q).j = "save" /\ i + 1 \in DOMAIN q /\ i + 1 < Len(q) BY <1>2, <1>4, <2>0
  <2> QED BY <1>2, <1>4, <2>1 DEF Shaped
<1>11. r # <<>> /\ Ending(r).j = "deleted" => \A i \in DOMAIN r : r[i].j \in LeaveKinds
  BY <1>2, <1>4 DEF Shaped
<1>12. Shaped(r)
  BY <1>6, <1>7, <1>8, <1>9, <1>10, <1>11 DEF Shaped
<1>13. r # <<>> => Head(r).j \notin Solo
  BY <1>3, <1>6
<1>14. Head(q) = q[1] /\ 1 \in DOMAIN q OBVIOUS
<1>15. /\ r \in Seq(StoreJobs) /\ Shaped(r) /\ Len(r) = Len(q) - 1
       /\ \A i \in DOMAIN r : i + 1 \in DOMAIN q /\ r[i] = q[i + 1] /\ r[i].j \notin Solo
       /\ r # <<>> => /\ Ending(r) = Ending(q) /\ Head(r).j \notin Solo
                      /\ Len(q) > 1
  <2>1. \A i \in DOMAIN r : i + 1 \in DOMAIN q /\ r[i] = q[i + 1] /\ r[i].j \notin Solo
    BY <1>2, <1>6
  <2>2. r # <<>> => Ending(r) = Ending(q) /\ Head(r).j \notin Solo /\ Len(q) > 1
    BY <1>3, <1>4, <1>13
  <2> QED BY <1>2, <1>12, <2>1, <2>2
<1> QED BY <1>1, <1>14, <1>15

\* The two sizes of a picture.
LEMMA EachSize ==
    ASSUME NEW k, NEW u, NEW v
    PROVE  Each(k, u, v) = <<[j |-> k, u |-> u, v |-> v, size |-> "small"], [j |-> k, u |-> u, v |-> v, size |-> "large"]>>
<1>1. Len(Sizes) = 2 /\ Sizes[1] = "small" /\ Sizes[2] = "large"
  BY DEF Sizes
<1> QED BY <1>1 DEF Each

\* A list of pictures to drop.
DropList(w, u, v) ==
    /\ w \in Seq(StoreJobs) /\ DOMAIN w = 1 .. Len(w)
    /\ \A i \in DOMAIN w : w[i].j = "drop" /\ w[i].u = u /\ w[i].v = v
LEMMA DropsListed ==
    ASSUME NEW u \in Users, NEW v \in 0 .. MaxVersion
    PROVE  DropList(DropPictures(u, v), u, v)
<1>1. PICK a, b : a = [j |-> "drop", u |-> u, v |-> v, size |-> "small"] /\ b = [j |-> "drop", u |-> u, v |-> v, size |-> "large"]
  OBVIOUS
<1>2. a \in PictureJob /\ b \in PictureJob
  BY <1>1 DEF PictureJob
<1>3. a \in StoreJobs /\ b \in StoreJobs
  BY <1>2 DEF StoreJobs
<1>4. DropPictures(u, v) = <<a, b>>
  BY <1>1, EachSize DEF DropPictures
<1>5. <<a, b>> \in Seq(StoreJobs) /\ DOMAIN <<a, b>> = 1 .. 2 /\ Len(<<a, b>>) = 2
  BY <1>3
<1>6. \A i \in 1 .. 2 : <<a, b>>[i] = a \/ <<a, b>>[i] = b OBVIOUS
<1> QED BY <1>1, <1>4, <1>5, <1>6 DEF DropList

LEMMA UploadListed ==
    ASSUME NEW u \in Users, NEW row \in Face \cup {None}
    PROVE  /\ row # None => row \in Face /\ row.ver \in 0 .. MaxVersion
           /\ row # None /\ row.source = "upload" => DropList(DropUpload(u, row), u, row.ver)
           /\ ~ (row # None /\ row.source = "upload") => DropUpload(u, row) = <<>>
<1>1. row # None => row \in Face /\ row.ver \in 0 .. MaxVersion
  BY DEF Face
<1>2. ASSUME row # None, row.source = "upload"
      PROVE  DropList(DropUpload(u, row), u, row.ver)
  <2>1. PICK v \in 0 .. MaxVersion : v = row.ver BY <1>1, <1>2
  <2>2. DropList(DropPictures(u, v), u, v) BY DropsListed
  <2>3. DropUpload(u, row) = DropPictures(u, v) BY <1>2, <2>1 DEF DropUpload
  <2> QED BY <2>1, <2>2, <2>3
<1>3. ~ (row # None /\ row.source = "upload") => DropUpload(u, row) = <<>>
  BY DEF DropUpload
<1> QED BY <1>1, <1>2, <1>3

\* Such a list is in shape, and promises nothing but that its pictures are not shown.
LEMMA DropListShaped ==
    ASSUME NEW w, NEW u, NEW v, DropList(w, u, v)
    PROVE  /\ Shaped(w) /\ (w # <<>> => Head(w).j \notin Solo /\ Ending(w).j = "drop")
<1>1. w # <<>> => Len(w) \in DOMAIN w /\ 1 \in DOMAIN w /\ Head(w) = w[1]
  BY DEF DropList
<1>2. w # <<>> => Ending(w).j = "drop" /\ Head(w).j = "drop"
  BY <1>1 DEF DropList, Ending
<1>3. \A i \in DOMAIN w : w[i].j = "drop"
  BY DEF DropList
<1> QED BY <1>2, <1>3 DEF Shaped, Solo, Lone, LeaveKinds

LEMMA EmptyShaped == <<>> \in Seq(StoreJobs) /\ Shaped(<<>>) /\ DropsFine(<<>>)' /\ Saves(<<>>)'
BY DEF Shaped, DropsFine, Saves

LEMMA ReadForNameKeeps ==
    ASSUME PlaceInv, NEW c \in Clients, ReadForName(c)
    PROVE  PlaceInv'
<1>0. StoreTyped
  BY DEF PlaceInv
<1>1. PICK x \in StoreJobs : x = Job(c) /\ x = Head(todo[c]) /\ todo[c] # <<>> /\ x.j = "nickname"
  BY <1>0, HeadTyped DEF At, Job, ReadForName
<1>2. x \in UserJob
  BY <1>1, JobKinds
<1>3. PICK u \in Users : u = x.u
  BY <1>2 DEF UserJob
<1>5. ASSUME u \notin gone
      PROVE  Moved(c)
  <2>1. PICK r : r = [j |-> "rename", u |-> u, row |-> face[u]] OBVIOUS
  <2>2. r \in RenameJob /\ r.j = "rename" BY <1>0, <2>1 DEF RenameJob, StoreTyped
  <2>3. Then(c, <<r>>) BY <1>1, <1>3, <1>5, <2>1 DEF ReadForName
  <2>4. r \in StoreJobs /\ r.j \notin FaceKinds /\ Head(todo[c]).j \notin LeaveKinds /\ Safe(r)'
    BY <1>1, <2>2 DEF StoreJobs, LeaveKinds, FaceKinds, Lone, Safe
  <2> QED BY <1>0, <1>1, <2>3, <2>4, OneMoves
<1>6. Moved(c) \/ Halted(c)
  <2>1. u \in gone => Halted(c) BY <1>1, <1>3 DEF ReadForName, Halted, LeaveKinds
  <2> QED BY <1>5, <2>1
<1>7. UNCHANGED <<db, blobs, cache, env, avatars>> /\ Head(todo[c]).j \notin {"picture", "save", "deleted"}
  BY <1>1 DEF ReadForName, textures
<1> QED BY <1>1, <1>6, <1>7, ReadKeeps

\* A request of its own has nothing after its statement.
LEMMA AloneTail ==
    ASSUME StoreTyped, ListsShaped, NEW c \in Clients, todo[c] # <<>>, Head(todo[c]).j \in Lone \cup {"save", "deleted"}
    PROVE  Tail(todo[c]) = <<>> /\ Ending(todo[c]) = Head(todo[c]) /\ DOMAIN todo[c] = {1}
<1>1. PICK q : q = todo[c] OBVIOUS
<1>2. q \in Seq(StoreJobs) /\ q # <<>> /\ Shaped(q) /\ Head(q).j \in Lone \cup {"save", "deleted"}
  BY <1>1 DEF StoreTyped, ListsShaped
<1>3. 1 \in DOMAIN q /\ Head(q) = q[1]
  BY <1>2
<1>4. Len(q) = 1
  BY <1>2, <1>3 DEF Shaped
<1>5. Tail(q) \in Seq(StoreJobs) /\ Len(Tail(q)) = 0
  BY <1>2, <1>4
<1>6. Tail(q) = <<>>
  BY <1>5, EmptySeq
<1>7. DOMAIN q = {1}
  BY <1>2, <1>4
<1> QED BY <1>1, <1>3, <1>4, <1>6, <1>7 DEF Ending

\* What a step that is no deletion of an account keeps of the pictures.
LEMMA PicturesStay ==
    ASSUME StoreTyped, ListsShaped, SerialInv, plan.serial, NEW c \in Clients, todo[c] # <<>>,
           Head(todo[c]).j \notin LeaveKinds, plan' = plan, face' = face, pictures \subseteq pictures', stale \subseteq stale'
    PROVE  AvatarHasPictures'
<1>1. AvatarHasPictures /\ OneAtATime
  BY DEF SerialInv
<1>2. \A u \in Users : ~ Leaving(u)
  BY <1>1, LeavingEnds
<1> QED BY <1>1, <1>2 DEF AvatarHasPictures, Uploaded, PicturesOf

LEMMA ReadFaceKeeps ==
    ASSUME PlaceInv, NEW c \in Clients, ReadFace(c)
    PROVE  PlaceInv'
<1>0. StoreTyped /\ ListsShaped /\ SerialInv
  BY DEF PlaceInv
<1>1. PICK x \in StoreJobs : x = Job(c) /\ x = Head(todo[c]) /\ todo[c] # <<>> /\ x.j = "face"
  BY <1>0, HeadTyped DEF At, Job, ReadFace
<1>2. x \in UserJob
  BY <1>1, JobKinds
<1>3. PICK u \in Users : u = x.u
  BY <1>2 DEF UserJob
<1>4. PICK v, row : v = NextVersion(face[u]) /\ row = face[u] OBVIOUS
<1>5. row \in Face \cup {None} /\ v \in 0 .. MaxVersion
  <2>1. row \in Face \cup {None} BY <1>0, <1>4 DEF StoreTyped
  <2>2. v <= MaxVersion BY <1>1, <1>3, <1>4 DEF ReadFace
  <2>3. row # None => row.ver \in Nat BY <2>1, UploadListed
  <2> QED BY <1>4, <2>1, <2>2, <2>3, AvatarAssumption DEF NextVersion
<1>6. UNCHANGED <<textures, plan, faults, stale, face, pictures, gone>>
  BY DEF ReadFace, env, avatars
<1>7. Head(todo[c]).j \notin LeaveKinds /\ Head(todo[c]).j \in Lone
  BY <1>1 DEF LeaveKinds, Lone
<1>8. DataTyped' /\ Cascaded' /\ (plan.serial => RowHasBlob')
  BY <1>0, <1>6, TexturesStay DEF StoreTyped
<1>9. plan.serial => AvatarHasPictures'
  BY <1>0, <1>1, <1>6, <1>7, PicturesStay
<1>10. face' \in [Users -> Face \cup {None}] /\ gone' \subseteq Users
  BY <1>0, <1>6 DEF StoreTyped
<1>11. ASSUME u \in gone
       PROVE  PlaceInv'
  <2>1. todo' = [todo EXCEPT ![c] = <<>>] BY <1>1, <1>3, <1>11 DEF ReadFace, Stop
  <2> QED BY <1>1, <1>6, <1>8, <1>9, <1>10, <2>1, EmptyShaped, AvatarKeeps
<1>12. ASSUME u \notin gone
       PROVE  PlaceInv'
  <2>1. PICK a, b, s : /\ a = [j |-> "picture", u |-> u, v |-> v, size |-> "small"]
                       /\ b = [j |-> "picture", u |-> u, v |-> v, size |-> "large"]
                       /\ s = [j |-> "save", u |-> u, v |-> v, row |-> row]
    OBVIOUS
  <2>2. a \in PictureJob /\ b \in PictureJob /\ s \in SaveJob
    BY <1>5, <2>1 DEF PictureJob, SaveJob
  <2>3. a \in StoreJobs /\ b \in StoreJobs /\ s \in StoreJobs BY <2>2 DEF StoreJobs
  <2>4. PICK w : w = <<a, b, s>> OBVIOUS
  <2>5. /\ w \in Seq(StoreJobs) /\ w # <<>> /\ Len(w) = 3 /\ DOMAIN w = 1 .. 3 /\ w[1] = a /\ w[2] = b /\ w[3] = s
        /\ Head(w) = a
    BY <2>3, <2>4
  <2>6. Each("picture", u, v) = <<a, b>> BY <2>1, EachSize
  <2>7. Each("picture", u, v) \o <<s>> = w
    <3>a. <<a, b>> \in Seq(StoreJobs) /\ <<s>> \in Seq(StoreJobs) BY <2>3
    <3>b. PICK z : z = <<a, b>> \o <<s>> OBVIOUS
    <3>c. z \in Seq(StoreJobs) /\ Len(z) = 3 /\ z[1] = a /\ z[2] = b /\ z[3] = s
      BY <3>a, <3>b, ConcatProperties
    <3>d. \A i \in 1 .. Len(z) : z[i] = w[i] BY <2>5, <3>c
    <3>e. z = w BY <2>5, <3>c, <3>d, SeqEqual
    <3>1. <<a, b>> \o <<s>> = <<a, b, s>> BY <2>4, <3>b, <3>e
    <3> QED BY <2>4, <2>6, <3>1
  <2>8. Then(c, Each("picture", u, v) \o <<s>>)
    BY <1>1, <1>3, <1>4, <1>12, <2>1 DEF ReadFace
  <2>9. Tail(todo[c]) = <<>> BY <1>0, <1>1, <1>7, AloneTail
  <2>10. todo' = [todo EXCEPT ![c] = w]
    <3>1. todo' = [todo EXCEPT ![c] = w \o Tail(todo[c])]
      BY <1>0, <2>7, <2>8 DEF Then, StoreTyped
    <3>2. w \o <<>> = w BY <2>5
    <3> QED BY <2>9, <3>1, <3>2
  <2>11. Ending(w) = s /\ a.j = "picture" /\ b.j = "picture" /\ s.j = "save" /\ s.u = u /\ s.v = v /\ s.row = row
         /\ a.u = u /\ a.v = v /\ b.u = u /\ b.v = v /\ a.size = "small" /\ b.size = "large"
    BY <2>1, <2>5 DEF Ending
  <2>12. Shaped(w) /\ Head(w).j \notin Solo
    <3>1. \A i \in DOMAIN w : i = 1 \/ i = 2 \/ i = 3 BY <2>5
    <3>2. \A i \in DOMAIN w : w[i].j \in {"picture", "save"} /\ (w[i].j = "save" => i = 3)
      BY <2>5, <2>11, <3>1
    <3>3. \A i \in DOMAIN w : i < 3 => w[i].j = "picture" /\ w[i].u = Ending(w).u /\ w[i].v = Ending(w).v
      BY <2>5, <2>11, <3>1
    <3>4. \A i \in DOMAIN w : w[i].j \notin Solo /\ w[i].j \notin Lone /\ w[i].j # "deleted"
      BY <3>2 DEF Solo, Lone
    <3> QED BY <2>5, <2>11, <3>2, <3>3, <3>4 DEF Shaped
  <2>13. DropsFine(w)'
    <3>1. \A i \in DOMAIN w : w[i].j # "drop" BY <2>5, <2>11
    <3> QED BY <3>1 DEF DropsFine
  <2>14. Saves(w)'
    <3>1. s.row = face'[s.u] /\ s.v = NextVersion(face'[s.u]) BY <1>4, <1>6, <2>11
    <3>2. \A z \in {"small", "large"} : \E i \in DOMAIN w : w[i].j = "picture" /\ w[i].size = z
      BY <2>5, <2>11
    <3> QED BY <2>11, <3>1, <3>2 DEF Saves, Ending, NextVersion
  <2> QED BY <1>1, <1>6, <1>8, <1>9, <1>10, <2>5, <2>10, <2>12, <2>13, <2>14, AvatarKeeps
<1> QED BY <1>11, <1>12

LEMMA PutAvatarBytesKeeps ==
    ASSUME PlaceInv, NEW c \in Clients, PutAvatarBytes(c)
    PROVE  PlaceInv'
<1>0. StoreTyped /\ ListsShaped /\ SerialInv
  BY DEF PlaceInv
<1>1. PICK x \in StoreJobs : x = Job(c) /\ x = Head(todo[c]) /\ todo[c] # <<>> /\ x.j = "picture"
  BY <1>0, HeadTyped DEF At, Job, PutAvatarBytes
<1>q. PICK q : q = todo[c] OBVIOUS
<1>2. q \in Seq(StoreJobs) /\ q # <<>> /\ Shaped(q)
  BY <1>0, <1>1, <1>q DEF StoreTyped, ListsShaped
<1>3. PICK w : w = Tail(q) OBVIOUS
<1>4. /\ w \in Seq(StoreJobs) /\ Shaped(w) /\ Len(w) = Len(q) - 1
      /\ \A i \in DOMAIN w : i + 1 \in DOMAIN q /\ w[i] = q[i + 1] /\ w[i].j \notin Solo
      /\ w # <<>> => Ending(w) = Ending(q) /\ Head(w).j \notin Solo /\ Len(q) > 1
      /\ Head(q) = q[1] /\ 1 \in DOMAIN q
  BY <1>2, <1>3, TailShaped
<1>5. todo' = [todo EXCEPT ![c] = w]
  <2>1. todo' = [todo EXCEPT ![c] = <<>> \o Tail(todo[c])]
    BY <1>0 DEF PutAvatarBytes, Then, StoreTyped
  <2>2. <<>> \o w = w BY <1>4
  <2> QED BY <1>q, <1>3, <2>1, <2>2
<1>6. /\ UNCHANGED <<textures, plan, faults, stale, face, gone>>
      /\ pictures' = pictures \cup {<<x.u, x.v, x.size>>}
  BY <1>1 DEF PutAvatarBytes, env
<1>7. Head(todo[c]).j \notin LeaveKinds
  BY <1>1 DEF LeaveKinds
<1>8. DataTyped' /\ Cascaded' /\ (plan.serial => RowHasBlob')
  BY <1>0, <1>6, TexturesStay DEF StoreTyped
<1>9. plan.serial => AvatarHasPictures'
  BY <1>0, <1>1, <1>6, <1>7, PicturesStay
<1>10. face' \in [Users -> Face \cup {None}] /\ gone' \subseteq Users
  BY <1>0, <1>6 DEF StoreTyped
<1>11. q[1] = x /\ x.j = "picture" /\ Ending(q).j = "save" /\ 1 < Len(q)
  <2>1. q[1] = x /\ Ending(q).j = "save" BY <1>1, <1>2, <1>4, <1>q DEF Shaped
  <2>2. Len(q) # 1 /\ Len(q) \in Nat /\ Len(q) # 0 BY <1>1, <1>2, <2>1 DEF Ending
  <2>3. 1 < Len(q)
    <3>1. PICK n : n = Len(q) OBVIOUS
    <3>2. n \in Nat /\ n # 0 /\ n # 1 BY <2>2, <3>1
    <3>3. 1 < n BY <3>2
    <3> QED BY <3>1, <3>3
  <2> QED BY <1>1, <2>1, <2>3
<1>12. x.u = Ending(q).u /\ x.v = Ending(q).v /\ \A i \in DOMAIN q : q[i].j \in {"picture", "save"}
  <2>1. \A i \in DOMAIN q : i < Len(q) => q[i].j = "picture" /\ q[i].u = Ending(q).u /\ q[i].v = Ending(q).v
    BY <1>2, <1>11 DEF Shaped
  <2>2. \A i \in DOMAIN q : i = Len(q) => q[i].j = "save" BY <1>11 DEF Ending
  <2>3. \A i \in DOMAIN q : i < Len(q) \/ i = Len(q) BY <1>2
  <2> QED BY <1>4, <1>11, <2>1, <2>2, <2>3
<1>13. DropsFine(w)'
  <2>1. \A i \in DOMAIN w : w[i].j # "drop" BY <1>4, <1>12
  <2> QED BY <2>1 DEF DropsFine
<1>14. ASSUME plan.serial
       PROVE  Saves(w)'
  <2>1. w # <<>> /\ Ending(w) = Ending(q) BY <1>4, <1>11
  <2>2. Saves(q) BY <1>0, <1>14, <1>q DEF SerialInv, FaceSafe
  <2>3. PICK e : e = Ending(q) OBVIOUS
  <2>4. /\ e.row = face[e.u] /\ e.v = NextVersion(face[e.u])
        /\ \A z \in {"small", "large"} :
                 \/ <<e.u, e.v, z>> \in pictures
                 \/ \E i \in DOMAIN q : q[i].j = "picture" /\ q[i].size = z
    BY <1>2, <1>11, <2>2, <2>3 DEF Saves
  <2>5. ASSUME NEW z \in {"small", "large"}
        PROVE  \/ <<e.u, e.v, z>> \in pictures'
               \/ \E i \in DOMAIN w : w[i].j = "picture" /\ w[i].size = z
    <3>1. CASE <<e.u, e.v, z>> \in pictures BY <1>6, <3>1
    <3>2. CASE \E i \in DOMAIN q : q[i].j = "picture" /\ q[i].size = z
      <4>1. PICK i \in DOMAIN q : q[i].j = "picture" /\ q[i].size = z BY <3>2
      <4>2. CASE i = 1 BY <1>6, <1>11, <1>12, <2>3, <4>1, <4>2
      <4>3. CASE i # 1
        <5>1. i - 1 \in DOMAIN w BY <1>2, <1>4, <4>3
        <5>2. w[i - 1] = q[(i - 1) + 1] /\ (i - 1) + 1 = i BY <1>2, <1>4, <5>1
        <5> QED BY <4>1, <5>1, <5>2
      <4> QED BY <4>2, <4>3
    <3> QED BY <2>4, <3>1, <3>2
  <2>6. Ending(w) = e /\ face' = face BY <1>6, <2>1, <2>3
  <2> QED BY <2>4, <2>5, <2>6 DEF Saves, Ending, NextVersion
<1> QED BY <1>1, <1>4, <1>5, <1>6, <1>8, <1>9, <1>10, <1>13, <1>14, AvatarKeeps

\* The pictures of a version the row does not have may be dropped.
LEMMA DropListSafe ==
    ASSUME NEW w, NEW u, NEW v, DropList(w, u, v), ~ Uploaded(u)' \/ face'[u].ver # v
    PROVE  DropsFine(w)' /\ Saves(w)'
<1>1. \A i \in DOMAIN w : w[i].j = "drop" /\ w[i].u = u /\ w[i].v = v
  BY DEF DropList
<1>2. DropsFine(w)'
  BY <1>1 DEF DropsFine, Droppable, Uploaded
<1>3. w # <<>> => Ending(w).j = "drop"
  BY DropListShaped
<1> QED BY <1>2, <1>3 DEF Saves, Ending

LEMMA PutAvatarBytesFailsKeeps ==
    ASSUME PlaceInv, NEW c \in Clients, PutAvatarBytesFails(c)
    PROVE  PlaceInv'
<1>0. StoreTyped /\ ListsShaped /\ SerialInv
  BY DEF PlaceInv
<1>1. PICK x \in StoreJobs : x = Job(c) /\ x = Head(todo[c]) /\ todo[c] # <<>> /\ x.j = "picture"
  BY <1>0, HeadTyped DEF At, Job, PutAvatarBytesFails
<1>2. x \in PictureJob
  BY <1>1, JobKinds
<1>3. PICK u \in Users, v \in 0 .. MaxVersion : u = x.u /\ v = x.v
  BY <1>2 DEF PictureJob
<1>4. PICK w : w = IF x.size = "small" THEN <<>> ELSE DropPictures(u, v) OBVIOUS
<1>5. DropList(w, u, v)
  <2>1. DropList(<<>>, u, v) BY DEF DropList
  <2> QED BY <1>4, <2>1, DropsListed
<1>6. /\ UNCHANGED <<textures, plan, stale, face, pictures, gone>> /\ faults > 0 /\ faults' = faults - 1
      /\ todo' = [todo EXCEPT ![c] = w]
  BY <1>1, <1>3, <1>4 DEF PutAvatarBytesFails, avatars
<1>7. Head(todo[c]).j \notin LeaveKinds
  BY <1>1 DEF LeaveKinds
<1>8. DataTyped' /\ Cascaded' /\ (plan.serial => RowHasBlob')
  BY <1>0, <1>6, TexturesStay DEF StoreTyped
<1>9. plan.serial => AvatarHasPictures'
  BY <1>0, <1>1, <1>6, <1>7, PicturesStay
<1>10. face' \in [Users -> Face \cup {None}] /\ gone' \subseteq Users
  BY <1>0, <1>6 DEF StoreTyped
<1>11. ASSUME plan.serial
       PROVE  DropsFine(w)' /\ Saves(w)'
  <2>1. PICK q : q = todo[c] OBVIOUS
  <2>2. q \in Seq(StoreJobs) /\ q # <<>> /\ Shaped(q) /\ Saves(q) /\ Head(q) = q[1] /\ 1 \in DOMAIN q
    BY <1>0, <1>1, <1>11, <2>1 DEF StoreTyped, ListsShaped, SerialInv, FaceSafe
  <2>3. Ending(q).j = "save" /\ Head(q) = x BY <1>1, <2>1, <2>2 DEF Shaped
  <2>4. 1 = Len(q) \/ 1 < Len(q)
    <3>1. PICK n : n = Len(q) OBVIOUS
    <3>2. n \in Nat /\ 1 \in 1 .. n BY <2>2, <3>1, LenProperties
    <3>3. 1 = n \/ 1 < n BY <3>2
    <3> QED BY <3>1, <3>3
  <2>5. Ending(q).u = u /\ Ending(q).v = v
    BY <1>1, <1>3, <2>2, <2>3, <2>4 DEF Shaped, Ending
  <2>6. v = NextVersion(face[u]) BY <2>2, <2>3, <2>5 DEF Saves
  <2>7. face[u] # None => face[u].ver \in Nat BY <1>0 DEF StoreTyped, Face
  <2>8. ~ Uploaded(u)' \/ face'[u].ver # v BY <1>6, <2>6, <2>7 DEF Uploaded, NextVersion
  <2> QED BY <1>5, <2>8, DropListSafe
<1>12. w \in Seq(StoreJobs) /\ Shaped(w) /\ (w # <<>> => Head(w).j \notin Solo)
  BY <1>5, DropListShaped DEF DropList
<1> QED BY <1>1, <1>6, <1>8, <1>9, <1>10, <1>11, <1>12, AvatarKeeps

\* The statement that writes the row of an uploaded avatar.
LEMMA SavesNow ==
    ASSUME StoreTyped, ListsShaped, SerialInv, plan.serial, NEW c \in Clients, todo[c] # <<>>, Head(todo[c]).j = "save",
           NEW x, x = Head(todo[c])
    PROVE  /\ x.row = face[x.u] /\ x.v = NextVersion(face[x.u])
           /\ \A z \in {"small", "large"} : <<x.u, x.v, z>> \in pictures
<1>1. PICK q : q = todo[c] OBVIOUS
<1>2. q # <<>> /\ Head(q) = x /\ Ending(q) = x /\ DOMAIN q = {1} /\ Saves(q) /\ q[1] = x
  <2>1. Ending(q) = x /\ DOMAIN q = {1} BY <1>1, AloneTail
  <2>2. Saves(q) BY <1>1 DEF SerialInv, FaceSafe
  <2>3. Head(q) = q[1] BY <1>1 DEF StoreTyped
  <2> QED BY <1>1, <2>1, <2>2, <2>3
<1>3. \A i \in DOMAIN q : q[i].j # "picture"
  BY <1>1, <1>2
<1>4. x.j = "save"
  BY <1>1
<1> QED BY <1>2, <1>3, <1>4 DEF Saves

LEMMA SaveAvatarKeeps ==
    ASSUME PlaceInv, NEW c \in Clients, SaveAvatar(c)
    PROVE  PlaceInv'
<1>0. StoreTyped /\ ListsShaped /\ SerialInv
  BY DEF PlaceInv
<1>1. PICK x \in StoreJobs : x = Job(c) /\ x = Head(todo[c]) /\ todo[c] # <<>> /\ x.j = "save"
  BY <1>0, HeadTyped DEF At, Job, SaveAvatar
<1>2. x \in SaveJob
  BY <1>1, JobKinds
<1>3. PICK u \in Users, v \in 0 .. MaxVersion, row \in Face \cup {None} : u = x.u /\ v = x.v /\ row = x.row
  BY <1>2 DEF SaveJob
<1>6. UNCHANGED <<textures, plan, faults, stale, pictures, gone>>
  BY DEF SaveAvatar, env
<1>7. Head(todo[c]).j \notin LeaveKinds /\ Tail(todo[c]) = <<>>
  BY <1>0, <1>1, AloneTail DEF LeaveKinds
<1>8. DataTyped' /\ Cascaded' /\ (plan.serial => RowHasBlob')
  BY <1>0, <1>6, TexturesStay DEF StoreTyped
<1>9. plan.serial => /\ row = face[u] /\ v = NextVersion(face[u])
                     /\ \A z \in {"small", "large"} : <<u, v, z>> \in pictures
  BY <1>0, <1>1, <1>3, SavesNow
<1>10. gone' \subseteq Users
  BY <1>0, <1>6 DEF StoreTyped
<1>v. face[u] # None => face[u].ver \in Nat
  BY <1>0 DEF StoreTyped, Face
<1>11. ASSUME Writable(u, row)
       PROVE  PlaceInv'
  <2>1. /\ face' = [face EXCEPT ![u] = [source |-> "upload", ver |-> v]]
        /\ Then(c, DropUpload(u, row))
    BY <1>1, <1>3, <1>11 DEF SaveAvatar
  <2>2. PICK w : w = DropUpload(u, row) OBVIOUS
  <2>3. row # None /\ row.source = "upload" => DropList(w, u, row.ver)
    BY <2>2, UploadListed
  <2>4. ~ (row # None /\ row.source = "upload") => w = <<>> BY <2>2, UploadListed
  <2>5. w \in Seq(StoreJobs) /\ Shaped(w) /\ (w # <<>> => Head(w).j \notin Solo)
    <3>1. \A k : DropList(w, u, k) => w \in Seq(StoreJobs) /\ Shaped(w) /\ (w # <<>> => Head(w).j \notin Solo)
      BY DropListShaped DEF DropList
    <3> QED BY <2>3, <2>4, <3>1, EmptyShaped
  <2>6. todo' = [todo EXCEPT ![c] = w]
    <3>1. todo' = [todo EXCEPT ![c] = w \o Tail(todo[c])]
      BY <1>0, <2>1, <2>2 DEF Then, StoreTyped
    <3>2. w \o <<>> = w BY <2>5, ConcatEmptySeq
    <3> QED BY <1>7, <3>1, <3>2
  <2>7. [source |-> "upload", ver |-> v] \in Face BY DEF Face, AvatarSource
  <2>8. face' \in [Users -> Face \cup {None}] /\ face'[u] = [source |-> "upload", ver |-> v] /\ \A k \in Users \ {u} : face'[k] = face[k]
    BY <1>0, <2>1, <2>7 DEF StoreTyped
  <2>9. ASSUME plan.serial
        PROVE  DropsFine(w)' /\ Saves(w)'
    <3>1. ASSUME row # None, row.source = "upload"
          PROVE  DropsFine(w)' /\ Saves(w)'
      <4>1. face'[u].ver # row.ver BY <1>9, <1>v, <2>8, <2>9, <3>1 DEF NextVersion
      <4>2. PICK k : k = row.ver OBVIOUS
      <4> QED BY <2>3, <3>1, <4>1, <4>2, DropListSafe
    <3> QED BY <2>4, <3>1, EmptyShaped
  <2>10. ASSUME plan.serial
         PROVE  AvatarHasPictures'
    <3>1. AvatarHasPictures /\ OneAtATime BY <1>0, <2>10 DEF SerialInv
    <3>2. \A k \in Users : ~ Leaving(k) BY <1>0, <1>1, <1>7, <3>1, LeavingEnds
    <3>3. \A i \in 1 .. Len(Sizes) : Sizes[i] \in {"small", "large"}
      <4>1. Len(Sizes) = 2 /\ Sizes[1] = "small" /\ Sizes[2] = "large" BY DEF Sizes
      <4> QED BY <4>1
    <3>4. PicturesOf(u)' \subseteq pictures'
      <4>1. \A i \in 1 .. Len(Sizes) : <<u, v, Sizes[i]>> \in pictures
        BY <1>9, <2>10, <3>3
      <4> QED BY <1>6, <2>8, <4>1 DEF PicturesOf
    <3>5. \A k \in Users \ {u} : k \notin stale' /\ Uploaded(k)' => PicturesOf(k)' \subseteq pictures'
      BY <1>6, <2>8, <2>10, <3>1, <3>2 DEF AvatarHasPictures, Uploaded, PicturesOf
    <3> QED BY <3>4, <3>5 DEF AvatarHasPictures
  <2> QED BY <1>1, <1>6, <1>8, <1>10, <2>5, <2>6, <2>8, <2>9, <2>10, AvatarKeeps
<1>12. ASSUME ~ Writable(u, row)
       PROVE  PlaceInv'
  <2>1. face' = face /\ Then(c, DropPictures(u, v)) BY <1>1, <1>3, <1>12 DEF SaveAvatar
  <2>2. PICK w : w = DropPictures(u, v) OBVIOUS
  <2>3. DropList(w, u, v) BY <2>2, DropsListed
  <2>5. w \in Seq(StoreJobs) /\ Shaped(w) /\ (w # <<>> => Head(w).j \notin Solo)
    BY <2>3, DropListShaped DEF DropList
  <2>6. todo' = [todo EXCEPT ![c] = w]
    <3>1. todo' = [todo EXCEPT ![c] = w \o Tail(todo[c])]
      BY <1>0, <2>1, <2>2 DEF Then, StoreTyped
    <3>2. w \o <<>> = w BY <2>5, ConcatEmptySeq
    <3> QED BY <1>7, <3>1, <3>2
  <2>7. plan.serial => ~ Uploaded(u)' \/ face'[u].ver # v
    BY <1>9, <1>v, <2>1 DEF Uploaded, NextVersion
  <2>8. plan.serial => DropsFine(w)' /\ Saves(w)' BY <2>3, <2>7, DropListSafe
  <2>9. plan.serial => AvatarHasPictures' BY <1>0, <1>1, <1>6, <1>7, <2>1, PicturesStay
  <2>10. face' \in [Users -> Face \cup {None}] BY <1>0, <2>1 DEF StoreTyped
  <2> QED BY <1>1, <1>6, <1>8, <1>10, <2>5, <2>6, <2>8, <2>9, <2>10, AvatarKeeps
<1> QED BY <1>11, <1>12

LEMMA SaveAvatarFailsKeeps ==
    ASSUME PlaceInv, NEW c \in Clients, SaveAvatarFails(c)
    PROVE  PlaceInv'
<1>0. StoreTyped /\ ListsShaped /\ SerialInv
  BY DEF PlaceInv
<1>1. PICK x \in StoreJobs : x = Job(c) /\ x = Head(todo[c]) /\ todo[c] # <<>> /\ x.j = "save"
  BY <1>0, HeadTyped DEF At, Job, SaveAvatarFails
<1>2. x \in SaveJob
  BY <1>1, JobKinds
<1>3. PICK u \in Users, v \in 0 .. MaxVersion : u = x.u /\ v = x.v
  BY <1>2 DEF SaveJob
<1>6. UNCHANGED <<textures, plan, stale, face, pictures, gone>> /\ faults > 0 /\ faults' = faults - 1
  BY DEF SaveAvatarFails, avatars
<1>7. Head(todo[c]).j \notin LeaveKinds /\ Tail(todo[c]) = <<>>
  BY <1>0, <1>1, AloneTail DEF LeaveKinds
<1>8. DataTyped' /\ Cascaded' /\ (plan.serial => RowHasBlob')
  BY <1>0, <1>6, TexturesStay DEF StoreTyped
<1>9. plan.serial => v = NextVersion(face[u])
  BY <1>0, <1>1, <1>3, SavesNow
<1>10. face' \in [Users -> Face \cup {None}] /\ gone' \subseteq Users
  BY <1>0, <1>6 DEF StoreTyped
<1>v. face[u] # None => face[u].ver \in Nat
  BY <1>0 DEF StoreTyped, Face
<1>11. PICK w : w = DropPictures(u, v) OBVIOUS
<1>12. DropList(w, u, v)
  BY <1>11, DropsListed
<1>13. w \in Seq(StoreJobs) /\ Shaped(w) /\ (w # <<>> => Head(w).j \notin Solo)
  BY <1>12, DropListShaped DEF DropList
<1>14. todo' = [todo EXCEPT ![c] = w]
  <2>1. todo' = [todo EXCEPT ![c] = w \o Tail(todo[c])]
    BY <1>0, <1>1, <1>3, <1>11 DEF SaveAvatarFails, Then, StoreTyped
  <2>2. w \o <<>> = w BY <1>13, ConcatEmptySeq
  <2> QED BY <1>7, <2>1, <2>2
<1>15. plan.serial => ~ Uploaded(u)' \/ face'[u].ver # v
  BY <1>6, <1>9, <1>v DEF Uploaded, NextVersion
<1>16. plan.serial => DropsFine(w)' /\ Saves(w)'
  BY <1>12, <1>15, DropListSafe
<1>17. plan.serial => AvatarHasPictures'
  BY <1>0, <1>1, <1>6, <1>7, PicturesStay
<1> QED BY <1>1, <1>6, <1>8, <1>10, <1>13, <1>14, <1>16, <1>17, AvatarKeeps

\* A list without its first picture to drop.
LEMMA DropRest ==
    ASSUME StoreTyped, ListsShaped, NEW c \in Clients, todo[c] # <<>>, Head(todo[c]).j = "drop", Then(c, <<>>),
           face' = face
    PROVE  \E w \in Seq(StoreJobs) :
              /\ todo' = [todo EXCEPT ![c] = w] /\ Shaped(w) /\ (w # <<>> => Head(w).j \notin Solo)
              /\ plan.serial /\ SerialInv => DropsFine(w)' /\ Saves(w)'
              /\ Ending(todo[c]).j = "deleted" => w # <<>> /\ Ending(w) = Ending(todo[c]) /\ Len(w) \in DOMAIN w
<1>q. PICK q : q = todo[c] OBVIOUS
<1>2. q \in Seq(StoreJobs) /\ q # <<>> /\ Shaped(q)
  BY <1>q DEF StoreTyped, ListsShaped
<1>3. PICK w : w = Tail(q) OBVIOUS
<1>4. /\ w \in Seq(StoreJobs) /\ Shaped(w) /\ Len(w) = Len(q) - 1
      /\ \A i \in DOMAIN w : i + 1 \in DOMAIN q /\ w[i] = q[i + 1] /\ w[i].j \notin Solo
      /\ w # <<>> => Ending(w) = Ending(q) /\ Head(w).j \notin Solo /\ Len(q) > 1
      /\ Head(q) = q[1] /\ 1 \in DOMAIN q
  BY <1>2, <1>3, TailShaped
<1>5. todo' = [todo EXCEPT ![c] = w]
  <2>1. todo' = [todo EXCEPT ![c] = <<>> \o Tail(todo[c])] BY DEF Then, StoreTyped
  <2>2. <<>> \o w = w BY <1>4, ConcatEmptySeq
  <2> QED BY <1>q, <1>3, <2>1, <2>2
<1>6. w # <<>> => Ending(w).j # "save"
  <2>1. ASSUME w # <<>>, Ending(q).j = "save"
        PROVE  FALSE
    <3>1. 1 \in DOMAIN q /\ 1 < Len(q) BY <1>4, <2>1
    <3>2. \A i \in DOMAIN q : i < Len(q) => q[i].j = "picture" BY <1>2, <2>1 DEF Shaped
    <3>3. q[1].j = "drop" BY <1>q, <1>4
    <3> QED BY <3>1, <3>2, <3>3
  <2> QED BY <1>4, <2>1
<1>7. ASSUME plan.serial, SerialInv
      PROVE  DropsFine(w)' /\ Saves(w)'
  <2>1. DropsFine(q) BY <1>7, <1>q DEF SerialInv, FaceSafe
  <2>2. ASSUME NEW i \in DOMAIN w, w[i].j = "drop"
        PROVE  Droppable(w, w[i])'
    <3>1. i + 1 \in DOMAIN q /\ w[i] = q[i + 1] /\ w # <<>> BY <1>4, <2>2
    <3>2. Droppable(q, w[i]) BY <2>1, <2>2, <3>1 DEF DropsFine
    <3> QED BY <1>4, <3>1, <3>2 DEF Droppable, Uploaded, Ending
  <2>3. DropsFine(w)' BY <2>2 DEF DropsFine, Droppable, Uploaded, Ending
  <2> QED BY <1>6, <2>3 DEF Saves, Ending
<1>8. Ending(q).j = "deleted" => w # <<>> /\ Ending(w) = Ending(q) /\ Len(w) \in DOMAIN w
  <2> SUFFICES ASSUME Ending(q).j = "deleted"
               PROVE  w # <<>> /\ Ending(w) = Ending(q) /\ Len(w) \in DOMAIN w
    OBVIOUS
  <2>1. Len(q) # 1 BY <1>q, <1>4 DEF Ending
  <2>2. PICK n : n = Len(w) OBVIOUS
  <2>3. n \in Nat /\ n # 0 /\ DOMAIN w = 1 .. n
    BY <1>2, <1>4, <2>1, <2>2, EmptySeq, LenProperties
  <2>4. n \in 1 .. n BY <2>3
  <2>5. w # <<>> BY <2>2, <2>3, EmptySeq
  <2> QED BY <1>4, <2>2, <2>3, <2>4, <2>5
<1> QED BY <1>q, <1>4, <1>5, <1>7, <1>8

LEMMA DropPictureKeeps ==
    ASSUME PlaceInv, NEW c \in Clients, DropPicture(c)
    PROVE  PlaceInv'
<1>0. StoreTyped /\ ListsShaped /\ SerialInv
  BY DEF PlaceInv
<1>1. PICK x \in StoreJobs : x = Job(c) /\ x = Head(todo[c]) /\ todo[c] # <<>> /\ x.j = "drop"
  BY <1>0, HeadTyped DEF At, Job, DropPicture
<1>2. x \in PictureJob
  BY <1>1, JobKinds
<1>6. /\ UNCHANGED <<textures, plan, faults, stale, face, gone>>
      /\ pictures' = pictures \ {<<x.u, x.v, x.size>>} /\ Then(c, <<>>)
  BY <1>1 DEF DropPicture, env
<1>7. PICK w \in Seq(StoreJobs) :
              /\ todo' = [todo EXCEPT ![c] = w] /\ Shaped(w) /\ (w # <<>> => Head(w).j \notin Solo)
              /\ plan.serial /\ SerialInv => DropsFine(w)' /\ Saves(w)'
              /\ Ending(todo[c]).j = "deleted" => w # <<>> /\ Ending(w) = Ending(todo[c]) /\ Len(w) \in DOMAIN w
  BY <1>0, <1>1, <1>6, DropRest
<1>8. DataTyped' /\ Cascaded' /\ (plan.serial => RowHasBlob')
  BY <1>0, <1>6, TexturesStay DEF StoreTyped
<1>9. face' \in [Users -> Face \cup {None}] /\ gone' \subseteq Users
  BY <1>0, <1>6 DEF StoreTyped
<1>10. ASSUME plan.serial
       PROVE  AvatarHasPictures'
  <2>1. AvatarHasPictures /\ OneAtATime /\ DropsFine(todo[c])
    BY <1>0, <1>10 DEF SerialInv, FaceSafe
  <2>2. Droppable(todo[c], x)
    <3>1. 1 \in DOMAIN todo[c] /\ todo[c][1] = x BY <1>0, <1>1 DEF StoreTyped
    <3> QED BY <1>1, <2>1, <3>1 DEF DropsFine
  <2>3. todo'[c] = w BY <1>0, <1>7 DEF StoreTyped
  <2>4. ASSUME NEW u \in Users, Ending(todo[c]).j = "deleted", Ending(todo[c]).u = u
        PROVE  Leaving(u)'
    <3>1. w # <<>> /\ Ending(w).j = "deleted" /\ Ending(w).u = u /\ Len(w) \in DOMAIN w
      BY <1>7, <2>4
    <3> QED BY <2>3, <3>1 DEF Leaving, Ending
  <2>5. ASSUME NEW u \in Users, Leaving(u)
        PROVE  Leaving(u)'
    <3>1. Ending(todo[c]).j = "deleted" /\ Ending(todo[c]).u = u
      BY <1>0, <1>1, <2>1, <2>5, LeavingEnds
    <3> QED BY <2>4, <3>1
  <2>6. ASSUME NEW u \in Users, u \notin stale', Uploaded(u)', ~ Leaving(u)'
        PROVE  PicturesOf(u)' \subseteq pictures'
    <3>1. Uploaded(u) /\ ~ Leaving(u) /\ u \notin stale BY <1>6, <2>5, <2>6 DEF Uploaded
    <3>2. PicturesOf(u) \subseteq pictures BY <1>10, <2>1, <3>1 DEF AvatarHasPictures
    <3>3. x.u # u \/ face[u].ver # x.v BY <2>2, <2>4, <2>6, <3>1 DEF Droppable
    <3>4. <<x.u, x.v, x.size>> \notin PicturesOf(u) BY <3>3 DEF PicturesOf
    <3>5. PicturesOf(u)' = PicturesOf(u) BY <1>6 DEF PicturesOf
    <3> QED BY <1>6, <3>2, <3>4, <3>5
  <2> QED BY <2>6 DEF AvatarHasPictures
<1> QED BY <1>0, <1>1, <1>6, <1>7, <1>8, <1>9, <1>10, AvatarKeeps

LEMMA DropPictureFailsKeeps ==
    ASSUME PlaceInv, NEW c \in Clients, DropPictureFails(c)
    PROVE  PlaceInv'
<1>0. StoreTyped /\ ListsShaped /\ SerialInv
  BY DEF PlaceInv
<1>1. PICK x \in StoreJobs : x = Job(c) /\ x = Head(todo[c]) /\ todo[c] # <<>> /\ x.j = "drop"
  BY <1>0, HeadTyped DEF At, Job, DropPictureFails
<1>6. /\ UNCHANGED <<textures, plan, face, pictures, gone>> /\ faults > 0 /\ faults' = faults - 1
      /\ stale' = stale \cup {"picture"} /\ Then(c, <<>>)
  BY DEF DropPictureFails, avatars
<1>7. PICK w \in Seq(StoreJobs) :
              /\ todo' = [todo EXCEPT ![c] = w] /\ Shaped(w) /\ (w # <<>> => Head(w).j \notin Solo)
              /\ plan.serial /\ SerialInv => DropsFine(w)' /\ Saves(w)'
              /\ Ending(todo[c]).j = "deleted" => w # <<>> /\ Ending(w) = Ending(todo[c]) /\ Len(w) \in DOMAIN w
  BY <1>0, <1>1, <1>6, DropRest
<1>8. DataTyped' /\ Cascaded' /\ (plan.serial => RowHasBlob')
  <2>1. faults' \in Nat /\ stale' \subseteq Profiles \cup Users \cup Leftovers
    BY <1>0, <1>6 DEF StoreTyped, Leftovers
  <2> QED BY <1>6, <2>1, TexturesStay
<1>9. face' \in [Users -> Face \cup {None}] /\ gone' \subseteq Users
  BY <1>0, <1>6 DEF StoreTyped
<1>10. ASSUME plan.serial
       PROVE  AvatarHasPictures'
  <2>1. AvatarHasPictures /\ OneAtATime BY <1>0, <1>10 DEF SerialInv
  <2>3. todo'[c] = w BY <1>0, <1>7 DEF StoreTyped
  <2>5. ASSUME NEW u \in Users, Leaving(u)
        PROVE  Leaving(u)'
    <3>1. Ending(todo[c]).j = "deleted" /\ Ending(todo[c]).u = u
      BY <1>0, <1>1, <2>1, <2>5, LeavingEnds
    <3>2. w # <<>> /\ Ending(w).j = "deleted" /\ Ending(w).u = u /\ Len(w) \in DOMAIN w
      BY <1>7, <3>1
    <3> QED BY <2>3, <3>2 DEF Leaving, Ending
  <2>6. \A u \in Users : u \notin stale' => u \notin stale BY <1>6
  <2> QED BY <1>6, <1>10, <2>1, <2>5, <2>6 DEF AvatarHasPictures, Uploaded, PicturesOf
<1> QED BY <1>0, <1>1, <1>6, <1>7, <1>8, <1>9, <1>10, AvatarKeeps

LEMMA ReadForSourceKeeps ==
    ASSUME PlaceInv, NEW c \in Clients, ReadForSource(c)
    PROVE  PlaceInv'
<1>0. StoreTyped /\ ListsShaped /\ SerialInv
  BY DEF PlaceInv
<1>1. PICK x \in StoreJobs : x = Job(c) /\ x = Head(todo[c]) /\ todo[c] # <<>> /\ x.j = "source"
  BY <1>0, HeadTyped DEF At, Job, ReadForSource
<1>2. x \in SourceJob
  BY <1>1, JobKinds
<1>6. UNCHANGED <<textures, plan, faults, stale, face, pictures, gone>>
  BY DEF ReadForSource, env, avatars
<1>7. Head(todo[c]).j \notin LeaveKinds /\ Tail(todo[c]) = <<>>
  BY <1>0, <1>1, AloneTail DEF LeaveKinds, Lone
<1>8. DataTyped' /\ Cascaded' /\ (plan.serial => RowHasBlob')
  BY <1>0, <1>6, TexturesStay DEF StoreTyped
<1>9. plan.serial => AvatarHasPictures'
  BY <1>0, <1>1, <1>6, <1>7, PicturesStay
<1>10. face' \in [Users -> Face \cup {None}] /\ gone' \subseteq Users
  BY <1>0, <1>6 DEF StoreTyped
<1>11. PICK r : r = [j |-> "switch", u |-> x.u, source |-> x.source, row |-> face[x.u]] OBVIOUS
<1>12. r \in SwitchJob /\ r.j = "switch"
  BY <1>0, <1>2, <1>11 DEF SwitchJob, SourceJob, StoreTyped
<1>13. r \in StoreJobs
  BY <1>12 DEF StoreJobs
<1>14. Stop(c) \/ Then(c, <<r>>)
  BY <1>1, <1>11 DEF ReadForSource
<1>15. PICK w : w = <<>> \/ w = <<r>> OBVIOUS
<1>16. ASSUME NEW z, z = <<r>>
       PROVE  z \in Seq(StoreJobs) /\ Shaped(z) /\ Head(z).j \notin Solo /\ DropsFine(z)' /\ Saves(z)'
  <2>1. z \in Seq(StoreJobs) /\ Len(z) = 1 /\ DOMAIN z = {1} /\ z[1] = r /\ Head(z) = r
    BY <1>13, <1>16
  <2>2. Ending(z) = r BY <2>1 DEF Ending
  <2> QED BY <1>12, <2>1, <2>2 DEF Shaped, DropsFine, Saves, Ending, Solo, Lone
<1>17. ASSUME Stop(c)
       PROVE  PlaceInv'
  <2>1. todo' = [todo EXCEPT ![c] = <<>>] BY <1>17 DEF Stop
  <2> QED BY <1>1, <1>6, <1>8, <1>9, <1>10, <2>1, EmptyShaped, AvatarKeeps
<1>18. ASSUME Then(c, <<r>>)
       PROVE  PlaceInv'
  <2>0. PICK z : z = <<r>> OBVIOUS
  <2>1. todo' = [todo EXCEPT ![c] = z \o Tail(todo[c])]
    BY <1>0, <1>18, <2>0 DEF Then, StoreTyped
  <2>2. z \in Seq(StoreJobs) /\ Shaped(z) /\ Head(z).j \notin Solo /\ DropsFine(z)' /\ Saves(z)'
    BY <1>16, <2>0
  <2>3. z \o <<>> = z BY <2>2, ConcatEmptySeq
  <2>4. todo' = [todo EXCEPT ![c] = z] BY <1>7, <2>1, <2>3
  <2> QED BY <1>1, <1>6, <1>8, <1>9, <1>10, <2>2, <2>4, AvatarKeeps
<1> QED BY <1>14, <1>17, <1>18

\* A row of one user is written while nobody leaves.
LEMMA FaceWritten ==
    ASSUME StoreTyped, ListsShaped, SerialInv, plan.serial, NEW c \in Clients, todo[c] # <<>>,
           Head(todo[c]).j \notin LeaveKinds, plan' = plan, NEW u \in Users, ~ Uploaded(u)',
           \A k \in Users \ {u} : face'[k] = face[k], pictures' = pictures, stale' = stale
    PROVE  AvatarHasPictures'
<1>1. AvatarHasPictures /\ OneAtATime
  BY DEF SerialInv
<1>2. \A k \in Users : ~ Leaving(k)
  BY <1>1, LeavingEnds
<1> QED BY <1>1, <1>2 DEF AvatarHasPictures, Uploaded, PicturesOf

LEMMA SaveSourceKeeps ==
    ASSUME PlaceInv, NEW c \in Clients, SaveSource(c)
    PROVE  PlaceInv'
<1>0. StoreTyped /\ ListsShaped /\ SerialInv
  BY DEF PlaceInv
<1>1. PICK x \in StoreJobs : x = Job(c) /\ x = Head(todo[c]) /\ todo[c] # <<>> /\ x.j = "switch"
  BY <1>0, HeadTyped DEF At, Job, SaveSource
<1>2. x \in SwitchJob
  BY <1>1, JobKinds
<1>3. PICK u \in Users, row \in Face \cup {None}, src \in AvatarSource \ {"upload"} : u = x.u /\ row = x.row /\ src = x.source
  BY <1>2 DEF SwitchJob
<1>4. PICK v : v = IF row = None THEN 0 ELSE row.ver + 1 OBVIOUS
<1>5. v \in 0 .. MaxVersion
  <2>1. v <= MaxVersion BY <1>1, <1>3, <1>4 DEF SaveSource
  <2>2. row # None => row.ver \in Nat BY UploadListed
  <2> QED BY <1>4, <2>1, <2>2, AvatarAssumption
<1>6. UNCHANGED <<textures, plan, faults, stale, pictures, gone>>
  BY DEF SaveSource, env
<1>7. Head(todo[c]).j \notin LeaveKinds /\ Tail(todo[c]) = <<>>
  BY <1>0, <1>1, AloneTail DEF LeaveKinds, Lone
<1>8. DataTyped' /\ Cascaded' /\ (plan.serial => RowHasBlob')
  BY <1>0, <1>6, TexturesStay DEF StoreTyped
<1>10. gone' \subseteq Users
  BY <1>0, <1>6 DEF StoreTyped
<1>11. ASSUME Writable(u, row)
       PROVE  PlaceInv'
  <2>1. face' = [face EXCEPT ![u] = [source |-> src, ver |-> v]] /\ Then(c, DropUpload(u, row))
    BY <1>1, <1>3, <1>4, <1>11 DEF SaveSource
  <2>2. PICK w : w = DropUpload(u, row) OBVIOUS
  <2>3. [source |-> src, ver |-> v] \in Face BY <1>5 DEF Face
  <2>4. /\ face' \in [Users -> Face \cup {None}] /\ face'[u] = [source |-> src, ver |-> v]
        /\ \A k \in Users \ {u} : face'[k] = face[k]
    BY <1>0, <2>1, <2>3 DEF StoreTyped
  <2>5. ~ Uploaded(u)' BY <2>4 DEF Uploaded
  <2>6. (\E k : DropList(w, u, k)) \/ w = <<>> BY <2>2, UploadListed
  <2>7. w \in Seq(StoreJobs) /\ Shaped(w) /\ (w # <<>> => Head(w).j \notin Solo) /\ DropsFine(w)' /\ Saves(w)'
    <3>1. ASSUME NEW k, DropList(w, u, k)
          PROVE  w \in Seq(StoreJobs) /\ Shaped(w) /\ (w # <<>> => Head(w).j \notin Solo) /\ DropsFine(w)' /\ Saves(w)'
      <4>1. DropsFine(w)' /\ Saves(w)' BY <2>5, <3>1, DropListSafe
      <4> QED BY <3>1, <4>1, DropListShaped DEF DropList
    <3> QED BY <2>6, <3>1, EmptyShaped
  <2>8. todo' = [todo EXCEPT ![c] = w]
    <3>1. todo' = [todo EXCEPT ![c] = w \o Tail(todo[c])]
      BY <1>0, <2>1, <2>2 DEF Then, StoreTyped
    <3>2. w \o <<>> = w BY <2>7, ConcatEmptySeq
    <3> QED BY <1>7, <3>1, <3>2
  <2>9. plan.serial => AvatarHasPictures'
    BY <1>0, <1>1, <1>6, <1>7, <2>4, <2>5, FaceWritten
  <2> QED BY <1>1, <1>6, <1>8, <1>10, <2>4, <2>7, <2>8, <2>9, AvatarKeeps
<1>12. ASSUME ~ Writable(u, row)
       PROVE  PlaceInv'
  <2>1. face' = face /\ todo' = [todo EXCEPT ![c] = <<>>]
    BY <1>1, <1>3, <1>12 DEF SaveSource, Stop
  <2>2. plan.serial => AvatarHasPictures' BY <1>0, <1>1, <1>6, <1>7, <2>1, PicturesStay
  <2>3. face' \in [Users -> Face \cup {None}] BY <1>0, <2>1 DEF StoreTyped
  <2> QED BY <1>1, <1>6, <1>8, <1>10, <2>1, <2>2, <2>3, EmptyShaped, AvatarKeeps
<1> QED BY <1>11, <1>12

LEMMA SaveNameKeeps ==
    ASSUME PlaceInv, NEW c \in Clients, SaveName(c)
    PROVE  PlaceInv'
<1>0. StoreTyped /\ ListsShaped /\ SerialInv
  BY DEF PlaceInv
<1>1. PICK x \in StoreJobs : x = Job(c) /\ x = Head(todo[c]) /\ todo[c] # <<>> /\ x.j = "rename"
  BY <1>0, HeadTyped DEF At, Job, SaveName
<1>2. x \in RenameJob
  BY <1>1, JobKinds
<1>3. PICK u \in Users : u = x.u
  BY <1>2 DEF RenameJob
<1>6. UNCHANGED <<textures, plan, faults, stale, pictures, gone>> /\ todo' = [todo EXCEPT ![c] = <<>>]
  BY DEF SaveName, env, Stop
<1>7. Head(todo[c]).j \notin LeaveKinds
  BY <1>1 DEF LeaveKinds
<1>8. DataTyped' /\ Cascaded' /\ (plan.serial => RowHasBlob')
  BY <1>0, <1>6, TexturesStay DEF StoreTyped
<1>9. face' = face \/ face' = [face EXCEPT ![u] = [source |-> "none", ver |-> 0]]
  BY <1>1, <1>3 DEF SaveName
<1>10. [source |-> "none", ver |-> 0] \in Face
  BY AvatarAssumption DEF Face, AvatarSource
<1>11. face' \in [Users -> Face \cup {None}] /\ gone' \subseteq Users
  BY <1>0, <1>6, <1>9, <1>10 DEF StoreTyped
<1>12. ASSUME face' = face
       PROVE  plan.serial => AvatarHasPictures'
  BY <1>0, <1>1, <1>6, <1>7, <1>12, PicturesStay
<1>13. ASSUME face' = [face EXCEPT ![u] = [source |-> "none", ver |-> 0]]
       PROVE  plan.serial => AvatarHasPictures'
  <2>1. ~ Uploaded(u)' /\ \A k \in Users \ {u} : face'[k] = face[k]
    BY <1>0, <1>13 DEF StoreTyped, Uploaded
  <2> QED BY <1>0, <1>1, <1>6, <1>7, <2>1, FaceWritten
<1>14. plan.serial => AvatarHasPictures'
  BY <1>9, <1>12, <1>13
<1> QED BY <1>1, <1>6, <1>8, <1>11, <1>14, EmptyShaped, AvatarKeeps

-----------------------------------------------------------------------------
(* The deletion of an account                                              *)

\* What comes before the account itself.
BeforeLeaving(u) == {x \in StoreJobs : x.j \in {"drop", "plist", "ulist"} /\ (x.j = "drop" => x.u = u)}

\* A list that keeps the invariant when it becomes what a client has to do.
FitsIn(w) == w \in Seq(StoreJobs) /\ w # <<>> /\ Shaped(w) /\ Head(w).j \notin Solo /\ DropsFine(w)' /\ Saves(w)'

LEMMA LeaveListed ==
    ASSUME NEW u \in Users, NEW q \in Seq(BeforeLeaving(u)), NEW a \in BeforeLeaving(u), NEW b \in StoreJobs,
           b.j = "deleted", b.u = u
    PROVE  FitsIn(q \o <<a, b>>)
<1>1. PICK K : K = BeforeLeaving(u) OBVIOUS
<1>2. K \subseteq StoreJobs /\ q \in Seq(K) /\ a \in K
  BY <1>1 DEF BeforeLeaving
<1>3. PICK w : w = q \o <<a, b>> OBVIOUS
<1>4. PICK n \in Nat : n = Len(q) /\ DOMAIN q = 1 .. n
  BY <1>2
<1>5. q \in Seq(StoreJobs) /\ <<a, b>> \in Seq(StoreJobs)
  BY <1>2
<1>6. /\ w \in Seq(StoreJobs) /\ Len(w) = n + 2
      /\ \A i \in 1 .. n : w[i] = q[i]
      /\ w[n + 1] = a /\ w[n + 2] = b
  BY <1>3, <1>4, <1>5, ConcatProperties
<1>7. DOMAIN w = 1 .. (n + 2)
  BY <1>6
<1>8. \A i \in DOMAIN w : (i \in 1 .. (n + 1) /\ w[i] \in K) \/ (i = n + 2 /\ w[i] = b)
  <2> SUFFICES ASSUME NEW i \in 1 .. (n + 2)
               PROVE  (i \in 1 .. (n + 1) /\ w[i] \in K) \/ (i = n + 2 /\ w[i] = b)
    BY <1>7
  <2>1. i \in 1 .. n \/ i = n + 1 \/ i = n + 2 OBVIOUS
  <2>2. i \in 1 .. n => w[i] \in K BY <1>2, <1>4, <1>6
  <2> QED BY <1>2, <1>6, <2>1, <2>2
<1>9. \A x \in K : x.j \in {"drop", "plist", "ulist"} /\ (x.j = "drop" => x.u = u)
  BY <1>1 DEF BeforeLeaving
<1>10. Ending(w) = b /\ w # <<>> /\ Head(w) = w[1] /\ 1 \in DOMAIN w
  <2>1. Ending(w) = b BY <1>6 DEF Ending
  <2>2. 1 \in DOMAIN w BY <1>7
  <2> QED BY <1>6, <2>1, <2>2
<1>11. \A i \in DOMAIN w : w[i].j \in {"drop", "plist", "ulist", "deleted"} /\ (w[i].j = "drop" => w[i].u = u)
                           /\ (w[i].j = "deleted" => i = Len(w))
  <2> SUFFICES ASSUME NEW i \in DOMAIN w
               PROVE  w[i].j \in {"drop", "plist", "ulist", "deleted"} /\ (w[i].j = "drop" => w[i].u = u)
                           /\ (w[i].j = "deleted" => i = Len(w))
    OBVIOUS
  <2>1. w[i] \in K => w[i].j \in {"drop", "plist", "ulist"} /\ (w[i].j = "drop" => w[i].u = u)
    BY <1>9
  <2> QED BY <1>6, <1>8, <2>1
<1>12. Shaped(w) /\ Head(w).j \notin Solo
  <2>1. \A i \in DOMAIN w : w[i].j \notin Solo /\ w[i].j \notin Lone /\ w[i].j \notin {"save", "picture"} /\ w[i].j \in LeaveKinds
    BY <1>11 DEF Solo, Lone, LeaveKinds
  <2>2. Ending(w).j # "save" BY <1>10
  <2> QED BY <1>10, <1>11, <2>1, <2>2 DEF Shaped
<1>13. DropsFine(w)'
  BY <1>10, <1>11 DEF DropsFine, Droppable, Ending
<1>14. Saves(w)'
  BY <1>10 DEF Saves, Ending
<1>15. FitsIn(w)
  BY <1>6, <1>10, <1>12, <1>13, <1>14 DEF FitsIn
<1> QED BY <1>3, <1>15

LEMMA LeaveReadKeeps ==
    ASSUME PlaceInv, NEW c \in Clients, LeaveRead(c)
    PROVE  PlaceInv'
<1>0. StoreTyped /\ ListsShaped /\ SerialInv
  BY DEF PlaceInv
<1>1. PICK x \in StoreJobs : x = Job(c) /\ x = Head(todo[c]) /\ todo[c] # <<>> /\ x.j = "leave"
  BY <1>0, HeadTyped DEF At, Job, LeaveRead
<1>2. x \in UserJob
  BY <1>1, JobKinds
<1>3. PICK u \in Users : u = x.u
  BY <1>2 DEF UserJob
<1>4. PICK row \in Face \cup {None} : row = face[u]
  BY <1>0 DEF StoreTyped
<1>6. UNCHANGED <<textures, plan, faults, stale, face, pictures, gone>>
  BY DEF LeaveRead, env, avatars
<1>7. Head(todo[c]).j \notin LeaveKinds /\ Tail(todo[c]) = <<>>
  BY <1>0, <1>1, AloneTail DEF LeaveKinds, Lone
<1>8. DataTyped' /\ Cascaded' /\ (plan.serial => RowHasBlob')
  BY <1>0, <1>6, TexturesStay DEF StoreTyped
<1>9. plan.serial => AvatarHasPictures'
  BY <1>0, <1>1, <1>6, <1>7, PicturesStay
<1>10. face' \in [Users -> Face \cup {None}] /\ gone' \subseteq Users
  BY <1>0, <1>6 DEF StoreTyped
<1>11. PICK D : D = DropUpload(u, row) OBVIOUS
<1>12. PICK K : K = BeforeLeaving(u) OBVIOUS
<1>13. D \in Seq(K)
  <2>1. (\E k : DropList(D, u, k)) \/ D = <<>> BY <1>11, UploadListed
  <2>2. ASSUME NEW k, DropList(D, u, k)
        PROVE  D \in Seq(K)
    <3>1. D \in Seq(StoreJobs) /\ DOMAIN D = 1 .. Len(D) /\ \A i \in DOMAIN D : D[i].j = "drop" /\ D[i].u = u
      BY <2>2 DEF DropList
    <3>2. \A i \in 1 .. Len(D) : D[i] \in K BY <1>12, <3>1 DEF BeforeLeaving
    <3> QED BY <3>1, <3>2
  <2>3. <<>> \in Seq(K) OBVIOUS
  <2> QED BY <2>1, <2>2, <2>3
<1>14. PICK S \in SUBSET Profiles : S = {p \in Profiles : OwnerOf[p] = u} OBVIOUS
<1>15. IsFiniteSet(S)
  BY StoreAssumption, FS_Subset
<1>16. PICK f : f = [p \in S |-> [j |-> "plist", p |-> p]] OBVIOUS
<1>17. \A p \in S : f[p] \in K
  <2>1. \A p \in S : [j |-> "plist", p |-> p] \in ProfileJob BY DEF ProfileJob
  <2>2. \A p \in S : [j |-> "plist", p |-> p] \in K
    BY <1>12, <2>1 DEF BeforeLeaving, StoreJobs
  <2> QED BY <1>16, <2>2
<1>18. PICK L : L = SetToSeq({f[p] : p \in S}) OBVIOUS
<1>19. L \in Seq(K)
  <2>1. f = [p \in S |-> f[p]] BY <1>16
  <2> QED BY <1>15, <1>17, <1>18, <2>1, ListOfEach
<1>20. L = SetToSeq({[j |-> "plist", p |-> p] : p \in {q \in Profiles : OwnerOf[q] = u}})
  <2>1. {f[p] : p \in S} = {[j |-> "plist", p |-> p] : p \in {q \in Profiles : OwnerOf[q] = u}}
    BY <1>14, <1>16
  <2> QED BY <1>18, <2>1
<1>21. PICK a, b : a = [j |-> "ulist", u |-> u] /\ b = [j |-> "deleted", u |-> u] OBVIOUS
<1>22. a \in K /\ b \in StoreJobs /\ b.j = "deleted" /\ b.u = u
  <2>1. a \in UserJob /\ b \in UserJob /\ a.j = "ulist" BY <1>21 DEF UserJob
  <2> QED BY <1>12, <1>21, <2>1 DEF StoreJobs, BeforeLeaving
<1>23. PICK q : q = D \o L OBVIOUS
<1>24. q \in Seq(K)
  BY <1>13, <1>19, <1>23
<1>25. PICK w \in Seq(StoreJobs) :
              /\ w = q \o <<a, b>> /\ w # <<>> /\ Shaped(w) /\ Head(w).j \notin Solo /\ DropsFine(w)' /\ Saves(w)'
  <2>1. q \in Seq(BeforeLeaving(u)) /\ a \in BeforeLeaving(u) /\ b \in StoreJobs
    BY <1>12, <1>22, <1>24
  <2>2. b.j = "deleted" /\ b.u = u /\ u \in Users BY <1>22
  <2>3. FitsIn(q \o <<a, b>>) BY <2>1, <2>2, LeaveListed
  <2> QED BY <2>3 DEF FitsIn
<1>26. Then(c, w)
  BY <1>1, <1>3, <1>4, <1>11, <1>20, <1>21, <1>23, <1>25 DEF LeaveRead
<1>27. todo' = [todo EXCEPT ![c] = w]
  <2>1. todo' = [todo EXCEPT ![c] = w \o Tail(todo[c])]
    BY <1>0, <1>26 DEF Then, StoreTyped
  <2>2. w \o <<>> = w BY <1>25, ConcatEmptySeq
  <2> QED BY <1>7, <2>1, <2>2
<1> QED BY <1>1, <1>6, <1>8, <1>9, <1>10, <1>25, <1>27, AvatarKeeps

LEMMA LeaveDeleteKeeps ==
    ASSUME PlaceInv, NEW c \in Clients, LeaveDelete(c)
    PROVE  PlaceInv'
<1>0. StoreTyped /\ ListsShaped /\ SerialInv /\ DataTyped /\ Cascaded
  BY DEF PlaceInv, StoreTyped, DataTyped
<1>1. PICK x \in StoreJobs : x = Job(c) /\ x = Head(todo[c]) /\ todo[c] # <<>> /\ x.j = "deleted"
  BY <1>0, HeadTyped DEF At, Job, LeaveDelete
<1>2. x \in UserJob
  BY <1>1, JobKinds
<1>3. PICK u \in Users : u = x.u
  BY <1>2 DEF UserJob
<1>4. PICK own : own = {t \in Live : rows[t].owner = u} OBVIOUS
<1>5. own \subseteq Ids /\ Deleted(own)
  BY <1>1, <1>3, <1>4 DEF LeaveDelete, Live, Deleted
<1>6. /\ UNCHANGED <<stamp, blobs, cache, plan, faults, pictures>> /\ todo' = [todo EXCEPT ![c] = <<>>]
      /\ gone' = gone \cup {u} /\ face' = [face EXCEPT ![u] = None]
      /\ stale' = stale \/ stale' = stale \cup {"blob", "lookup"}
  BY <1>1, <1>3, <1>4 DEF LeaveDelete, Stop
<1>7. stale \subseteq stale' /\ stale' \subseteq Profiles \cup Users \cup Leftovers
  BY <1>0, <1>6 DEF StoreTyped, Leftovers
<1>8. /\ rows' \in [Ids -> Row \cup {None}] /\ bind' \in [Slots -> Ids \cup {None}]
      /\ preset' \in [Slots -> Ids \cup {None}] /\ Cascaded'
      /\ RowHasBlob /\ UNCHANGED blobs => RowHasBlob'
  BY <1>0, <1>5, RowsDeleted
<1>9. DataTyped'
  BY <1>0, <1>6, <1>7, <1>8 DEF DataTyped, cache
<1>10. plan.serial => RowHasBlob'
  BY <1>0, <1>6, <1>8 DEF SerialInv
<1>11. face' \in [Users -> Face \cup {None}] /\ gone' \subseteq Users /\ face'[u] = None
       /\ \A k \in Users \ {u} : face'[k] = face[k]
  BY <1>0, <1>6 DEF StoreTyped
<1>12. ASSUME plan.serial
       PROVE  AvatarHasPictures'
  <2>1. AvatarHasPictures /\ OneAtATime BY <1>0, <1>12 DEF SerialInv
  <2>2. Ending(todo[c]) = x BY <1>0, <1>1, AloneTail
  <2>3. \A k \in Users \ {u} : ~ Leaving(k) BY <1>0, <1>1, <1>3, <2>1, <2>2, LeavingEnds
  <2>4. ASSUME NEW k \in Users, k \notin stale', Uploaded(k)'
        PROVE  PicturesOf(k)' \subseteq pictures'
    <3>1. k # u /\ Uploaded(k) /\ k \notin stale BY <1>7, <1>11, <2>4 DEF Uploaded
    <3>2. PicturesOf(k) \subseteq pictures
      BY <1>12, <2>1, <2>3, <3>1 DEF AvatarHasPictures
    <3> QED BY <1>6, <1>11, <3>1, <3>2 DEF PicturesOf
  <2> QED BY <2>4 DEF AvatarHasPictures
<1> QED BY <1>1, <1>6, <1>8, <1>9, <1>10, <1>11, <1>12, EmptyShaped, AvatarKeeps

-----------------------------------------------------------------------------
(* The specification                                                       *)

LEMMA AvatarStepKeeps ==
    ASSUME PlaceInv, NEW c \in Clients, AvatarStep(c)
    PROVE  PlaceInv'
<1>1. ReadFace(c) \/ PutAvatarBytes(c) \/ PutAvatarBytesFails(c) \/ SaveAvatar(c) \/ SaveAvatarFails(c) => PlaceInv'
  BY ReadFaceKeeps, PutAvatarBytesKeeps, PutAvatarBytesFailsKeeps, SaveAvatarKeeps, SaveAvatarFailsKeeps
<1>2. DropPicture(c) \/ DropPictureFails(c) \/ ReadForSource(c) \/ SaveSource(c) => PlaceInv'
  BY DropPictureKeeps, DropPictureFailsKeeps, ReadForSourceKeeps, SaveSourceKeeps
<1>3. ReadForName(c) \/ SaveName(c) \/ LeaveRead(c) \/ LeaveDelete(c) => PlaceInv'
  BY ReadForNameKeeps, SaveNameKeeps, LeaveReadKeeps, LeaveDeleteKeeps
<1> QED BY <1>1, <1>2, <1>3 DEF AvatarStep

LEMMA StoreNextKeeps ==
    ASSUME PlaceInv, StoreNext
    PROVE  PlaceInv'
<1>0. StoreTyped
  BY DEF PlaceInv
<1>1. ASSUME NEW c \in Clients, AvatarRequest(c)
      PROVE  PlaceInv'
  BY <1>0, <1>1, AvatarRequestBegins, BegunKeeps
<1>2. ASSUME NEW c \in Clients, AvatarStep(c)
      PROVE  PlaceInv'
  BY <1>2, AvatarStepKeeps
<1>3. TextureNext /\ UNCHANGED avatars => PlaceInv'
  BY TextureNextKeeps
<1> QED BY <1>1, <1>2, <1>3 DEF StoreNext

LEMMA StoreStutters ==
    ASSUME PlaceInv, UNCHANGED storeVars
    PROVE  PlaceInv'
<1>1. UNCHANGED <<rows, bind, preset, stamp, blobs, lookup, props, todo, plan, faults, stale, face, pictures, gone>>
  BY DEF storeVars, textureVars, avatars
<1>2. StoreTyped' /\ Cascaded'
  BY <1>1 DEF PlaceInv, StoreTyped, Cascaded
<1>3. ListsShaped'
  BY <1>1 DEF PlaceInv, ListsShaped, Shaped, Ending
<1>4. plan.serial => OneAtATime' /\ RowHasBlob' /\ HeadSafe'
  BY <1>1 DEF PlaceInv, SerialInv, OneAtATime, RowHasBlob, Live, HeadSafe, Safe
<1>5. plan.serial => FaceSafe'
  BY <1>1 DEF PlaceInv, SerialInv, FaceSafe, DropsFine, Saves, Droppable, Uploaded, Ending
<1>6. plan.serial => AvatarHasPictures'
  BY <1>1 DEF PlaceInv, SerialInv, AvatarHasPictures, Uploaded, Leaving, PicturesOf
<1> QED BY <1>1, <1>2, <1>3, <1>4, <1>5, <1>6 DEF PlaceInv, SerialInv

LEMMA StoreInitPlaces ==
    ASSUME StoreInit
    PROVE  PlaceInv
<1>0. TextureInit /\ face = [u \in Users |-> None] /\ pictures = {} /\ gone = {}
  BY DEF StoreInit
<1>1. /\ plan \in StoreLoads /\ preset = [s \in Slots |-> None] /\ stamp = [p \in Profiles |-> 0]
      /\ lookup = {} /\ props = {} /\ todo = [c \in Clients |-> <<>>] /\ faults = plan.faults /\ stale = {}
      /\ rows = [t \in Ids |-> IF plan.legacy /\ t = 1 THEN LegacyRow ELSE None]
      /\ bind = [s \in Slots |-> IF plan.legacy /\ s[2] = "skin" /\ OwnerOf[s[1]] = LegacyRow.owner
                               THEN 1 ELSE None]
      /\ blobs = IF plan.legacy THEN {LegacyRow.hash} ELSE {}
  BY <1>0 DEF TextureInit
<1>2. plan.faults \in Nat /\ plan.legacy \in BOOLEAN /\ plan.hashes \subseteq Hashes
  BY <1>1, StoreAssumption
<1>3. 1 \in Ids /\ None \notin Row
  BY StoreAssumption DEF Ids
<1>4. ASSUME plan.legacy
      PROVE  LegacyRow \in Row
  <2>1. "skin" \in Types /\ plan.hashes # {} /\ \E p \in Profiles : OwnerOf[p] = CHOOSE u \in Users : TRUE
    BY <1>1, <1>4, StoreAssumption
  <2>2. PICK o : o = CHOOSE u \in Users : TRUE OBVIOUS
  <2>3. PICK h : h = CHOOSE k \in plan.hashes : TRUE OBVIOUS
  <2>4. o \in Users BY <2>1, <2>2, StoreAssumption
  <2>5. h \in Hashes BY <1>2, <2>1, <2>3
  <2>6. LegacyRow = [owner |-> o, type |-> "skin", source |-> "local", hash |-> h, model |-> "default",
                     wardrobe |-> FALSE, ver |-> 0]
    BY <2>2, <2>3 DEF LegacyRow
  <2> QED BY <2>1, <2>4, <2>5, <2>6 DEF Row, Sources, Models
<1>5. PICK L : L = LegacyRow OBVIOUS
<1>6. plan.legacy => L \in Row /\ L # None /\ L.hash \in Hashes
  BY <1>3, <1>4, <1>5 DEF Row
<1>7. StoreTyped
  <2>1. rows \in [Ids -> Row \cup {None}] BY <1>1, <1>5, <1>6
  <2>2. bind \in [Slots -> Ids \cup {None}] /\ preset \in [Slots -> Ids \cup {None}]
    BY <1>1, <1>3
  <2>3. stamp \in [Profiles -> 0..MaxStamp] BY <1>1, StoreAssumption
  <2>4. blobs \subseteq Hashes BY <1>1, <1>5, <1>6
  <2>5. todo \in [Clients -> Seq(StoreJobs)] BY <1>1
  <2>6. face \in [Users -> Face \cup {None}] BY <1>0
  <2> QED BY <1>0, <1>1, <1>2, <2>1, <2>2, <2>3, <2>4, <2>5, <2>6 DEF StoreTyped
<1>8. Cascaded
  <2>1. \A s \in Slots : bind[s] # None => bind[s] = 1 /\ plan.legacy BY <1>1
  <2>2. \A s \in Slots : preset[s] = None BY <1>1
  <2>3. plan.legacy => rows[1] # None BY <1>1, <1>3, <1>5, <1>6
  <2> QED BY <2>1, <2>2, <2>3 DEF Cascaded
<1>9. ListsShaped
  BY <1>1 DEF ListsShaped, Shaped
<1>10. OneAtATime /\ HeadSafe /\ FaceSafe
  BY <1>1 DEF OneAtATime, HeadSafe, FaceSafe, DropsFine, Saves
<1>11. RowHasBlob
  BY <1>1, <1>5 DEF RowHasBlob, Live
<1>12. AvatarHasPictures
  BY <1>0 DEF AvatarHasPictures, Uploaded
<1> QED BY <1>7, <1>8, <1>9, <1>10, <1>11, <1>12 DEF PlaceInv, SerialInv

LEMMA PlacesObjects ==
    ASSUME PlaceInv
    PROVE  TexturesTyped /\ (plan.serial => ObjectsInPlace)
<1>0. StoreTyped
  BY DEF PlaceInv
<1>2. TexturesTyped
  BY <1>0 DEF StoreTyped, TexturesTyped
<1>3. plan.serial => RowHasBlob /\ AvatarHasPictures
  BY DEF PlaceInv, SerialInv
<1>4. face \in [Users -> Face \cup {None}] /\ gone \subseteq Users /\ todo \in [Clients -> Seq(StoreJobs)]
  BY <1>0 DEF StoreTyped
<1> QED BY <1>2, <1>3, <1>4 DEF ObjectsInPlace, StoreConsistent

(* The invariant of the object storage and of all requests under way holds *)
(* in every mode: what each request still has to do is well formed, and no *)
(* binding or preset names a deleted texture.                              *)
THEOREM StorePlaced == StoreSpec => []PlaceInv
<1>1. StoreInit => PlaceInv
  BY StoreInitPlaces
<1>2. PlaceInv /\ [StoreNext]_storeVars => PlaceInv'
  BY StoreNextKeeps, StoreStutters
<1> QED BY <1>1, <1>2, PTL DEF StoreSpec

(* Whatever requests interleave, fail or crash, tables, caches and lists   *)
(* stay typed and the foreign keys of bindings and presets hold            *)
(* (texture_repo, the cascades of the migrations).                         *)
THEOREM TexturesAlwaysTyped == StoreSpec => [](TexturesTyped /\ Cascaded)
<1>1. PlaceInv => TexturesTyped /\ Cascaded
  BY PlacesObjects DEF PlaceInv
<1> QED BY <1>1, StorePlaced, PTL

(* With one request at a time, with failures and crashes at any statement, *)
(* no texture row points at an object that is gone and an uploaded avatar  *)
(* has both its pictures (cleanup_texture_blob_if_unreferenced,            *)
(* upload_avatar, delete_user).                                            *)
THEOREM ObjectsStayInPlace == StoreSpec => [](plan.serial => ObjectsInPlace)
<1>1. PlaceInv => (plan.serial => ObjectsInPlace)
  BY PlacesObjects
<1> QED BY <1>1, StorePlaced, PTL
===============================================================================
