--------------------------- MODULE SyncSpecProofs ---------------------------
(***************************************************************************)
(* The sync tool and the loading of schemas, for every set of releases and *)
(* files and every list of schema files: what spec/ and its pin hold after *)
(* any number of syncs that died anywhere, and what validators load.       *)
(***************************************************************************)
EXTENDS SyncSpec, TLAPS

(* What the phases of a sync say about the disk: without the directory there is   *)
(* nothing in it; a directory is made where none is; while files are copied there *)
(* is no pin and nothing but the new release; the pin is written next to all of   *)
(* it; and a sync that is still cloning has not touched anything.                 *)
PhaseInv ==
  /\ ~dir => tree = NoTree /\ pin = Absent
  /\ sync.phase = "cloning" => ~sync.touched
  /\ sync.phase = "making" => ~dir
  /\ sync.phase = "copying" =>
       /\ dir /\ gutted /\ pin = Absent
       /\ \A f \in Files : tree[f] \in {Absent, Partial, sync.tag}
  /\ sync.phase \in {"opening", "writing"} =>
       /\ dir /\ gutted /\ pin \in {Absent, Partial}
       /\ tree = TreeOf(sync.tag)

(* A pin that nothing has been removed under stands for all of its release. *)
PinInv ==
  pin \in Releases /\ ~gutted => \A f \in Files : tree[f] \in {TreeOf(pin)[f], Edited}

(* An undisturbed load and the disk have one release, the one being copied if any. *)
LoadsRelease(r) ==
  /\ load.pinned \in {r, Absent, Partial}
  /\ \A i \in DOMAIN load.seen : load.seen[i] \in {r, Edited}
  /\ \A f \in Files : tree[f] \in Releases => tree[f] = r
  /\ pin \in Releases => pin = r
  /\ sync.phase \in {"copying", "opening", "writing"} => r = sync.tag

LoadInv == ~load.overlapped => \E r \in Releases : LoadsRelease(r)

SyncInv == SyncTypeOK /\ PhaseInv /\ OneRelease /\ PinInv /\ LoadInv

(* The steps, one by one. *)
LEMMA StepCases ==
  ASSUME [SyncNext]_vars
  PROVE  \/ UNCHANGED vars
         \/ \E w \in Releases \cup {Unset} : BumpVersion(w)
         \/ \E f \in Files : HandEdit(f)
         \/ StartSync \/ GitFails \/ Cloned
         \/ \E f \in Files : RemoveFile(f)
         \/ RemovePin \/ RemoveDir \/ MakeDir
         \/ \E f \in Files : OpenFile(f)
         \/ \E f \in Files : FillFile(f)
         \/ Copied \/ OpenPin \/ WritePin \/ Die
         \/ StartLoad \/ LoadFails \/ LoadSchema \/ EndLoad
  BY Zenon DEF SyncNext, SyncStep, LoadStep

----------------------------------------------------------------------------
(* Every part of the invariant holds initially. *)
LEMMA SyncInvInit == SyncInit => SyncInv
<1> SUFFICES ASSUME SyncInit PROVE SyncInv
  OBVIOUS
<1> USE DEF SyncInit
<1>1. SyncTypeOK
  <2>1. tree \in [Files -> Contents]
    BY DEF Contents, NoTree
  <2>2. sync \in [phase : Phases, tag : Releases, touched : BOOLEAN]
    BY DEF Phases
  <2>3. load \in [phase : {"idle", "loading", "loaded", "refused"},
                 seen : Seq(Releases \cup {Edited}),
                 pinned : Releases \cup {Absent, Partial}, overlapped : BOOLEAN]
    <3>1. << >> \in Seq(Releases \cup {Edited})
      OBVIOUS
    <3> QED
      BY <3>1
  <2> QED
    BY <2>1, <2>2, <2>3 DEF SyncTypeOK, Results
<1>2. PhaseInv
  BY DEF PhaseInv
<1>3. OneRelease
  BY SyncAssumption DEF OneRelease, NoTree
<1>4. PinInv
  BY SyncAssumption DEF PinInv
<1>5. LoadInv
  <2>1. LoadsRelease(wanted)
    BY SyncAssumption DEF LoadsRelease, NoTree
  <2> QED
    BY <2>1 DEF LoadInv
<1> QED
  BY <1>1, <1>2, <1>3, <1>4, <1>5 DEF SyncInv

(* The types are preserved: every action writes values of its variables' types, and *)
(* the tag of a sync comes from a version that was set.                             *)
LEMMA TypeStep ==
  ASSUME SyncTypeOK, [SyncNext]_vars
  PROVE  SyncTypeOK'
<1> USE DEF SyncTypeOK, Phases, Results
<1>1. CASE UNCHANGED vars
  BY <1>1 DEF vars
<1>2. ASSUME NEW w \in Releases \cup {Unset}, BumpVersion(w) PROVE SyncTypeOK'
  BY <1>2 DEF BumpVersion
<1>3. ASSUME NEW f \in Files, HandEdit(f) PROVE SyncTypeOK'
  BY <1>3 DEF HandEdit, Contents
<1>4. CASE StartSync
  BY <1>4 DEF StartSync
<1>5. CASE GitFails
  BY <1>5 DEF GitFails, Enter
<1>6. CASE Cloned
  BY <1>6 DEF Cloned, Enter
<1>7. ASSUME NEW f \in Files, RemoveFile(f) PROVE SyncTypeOK'
  BY <1>7 DEF RemoveFile, Disturb, Contents
<1>8. CASE RemovePin
  BY <1>8 DEF RemovePin, Disturb
<1>9. CASE RemoveDir
  BY <1>9 DEF RemoveDir, Disturb
<1>10. CASE MakeDir
  BY <1>10 DEF MakeDir, Disturb
<1>11. ASSUME NEW f \in Files, OpenFile(f) PROVE SyncTypeOK'
  BY <1>11 DEF OpenFile, Disturb, Contents
<1>12. ASSUME NEW f \in Files, FillFile(f) PROVE SyncTypeOK'
  BY <1>12 DEF FillFile, Disturb, Contents
<1>13. CASE Copied
  BY <1>13 DEF Copied, Enter
<1>14. CASE OpenPin
  BY <1>14 DEF OpenPin, Enter
<1>15. CASE WritePin
  BY <1>15 DEF WritePin, Enter
<1>16. CASE Die
  BY <1>16 DEF Die, Enter
<1>17. CASE StartLoad
  BY <1>17 DEF StartLoad
<1>18. CASE LoadFails
  BY <1>18 DEF LoadFails
<1>19. CASE LoadSchema
  <2>1. Append(load.seen, tree[NextSchema]) \in Seq(Releases \cup {Edited})
    BY <1>19 DEF LoadSchema
  <2>2. load' = [load EXCEPT !.seen = Append(load.seen, tree[NextSchema])]
    BY <1>19 DEF LoadSchema
  <2>3. load' \in [phase : {"idle", "loading", "loaded", "refused"},
                  seen : Seq(Releases \cup {Edited}),
                  pinned : Releases \cup {Absent, Partial}, overlapped : BOOLEAN]
    BY <2>1, <2>2
  <2> QED
    BY <1>19, <2>3 DEF LoadSchema
<1>20. CASE EndLoad
  BY <1>20 DEF EndLoad
<1> HIDE DEF SyncTypeOK
<1> QED
  BY StepCases, <1>1, <1>2, <1>3, <1>4, <1>5, <1>6, <1>7, <1>8, <1>9, <1>10,
     <1>11, <1>12, <1>13, <1>14, <1>15, <1>16, <1>17, <1>18, <1>19, <1>20

(* What a phase says of the disk is preserved: each operation leaves what the next *)
(* one finds, and outside of a sync only whole steps of it have been left undone.  *)
LEMMA PhaseStep ==
  ASSUME SyncTypeOK, PhaseInv, [SyncNext]_vars
  PROVE  PhaseInv'
<1> USE DEF PhaseInv
<1>1. CASE UNCHANGED vars
  BY <1>1 DEF vars, TreeOf, NoTree
<1>2. ASSUME NEW w \in Releases \cup {Unset}, BumpVersion(w) PROVE PhaseInv'
  BY <1>2 DEF BumpVersion, TreeOf, NoTree
<1>3. ASSUME NEW f \in Files, HandEdit(f) PROVE PhaseInv'
  BY <1>3 DEF HandEdit
<1>4. CASE StartSync
  BY <1>4 DEF StartSync, NoTree
<1>5. CASE GitFails
  BY <1>5 DEF GitFails, Enter, NoTree, SyncTypeOK
<1>6. CASE Cloned
  BY <1>6 DEF Cloned, Enter, NoTree, SyncTypeOK
<1>7. ASSUME NEW f \in Files, RemoveFile(f) PROVE PhaseInv'
  BY <1>7 DEF RemoveFile, Disturb, NoTree, SyncTypeOK
<1>8. CASE RemovePin
  BY <1>8 DEF RemovePin, Disturb, NoTree, SyncTypeOK
<1>9. CASE RemoveDir
  BY <1>9 DEF RemoveDir, Disturb, NoTree, SyncTypeOK
<1>10. CASE MakeDir
  BY <1>10 DEF MakeDir, Disturb, NoTree, SyncTypeOK
<1>11. ASSUME NEW f \in Files, OpenFile(f) PROVE PhaseInv'
  BY <1>11 DEF OpenFile, Disturb, SyncTypeOK
<1>12. ASSUME NEW f \in Files, FillFile(f) PROVE PhaseInv'
  BY <1>12 DEF FillFile, Disturb, SyncTypeOK
<1>13. CASE Copied
  BY <1>13 DEF Copied, Enter, TreeOf, SyncTypeOK
<1>14. CASE OpenPin
  BY <1>14 DEF OpenPin, Enter, TreeOf, SyncTypeOK
<1>15. CASE WritePin
  BY <1>15 DEF WritePin, Enter, SyncTypeOK
<1>16. CASE Die
  BY <1>16 DEF Die, Enter, NoTree, SyncTypeOK
<1>17. CASE StartLoad
  BY <1>17 DEF StartLoad, TreeOf, NoTree
<1>18. CASE LoadFails
  BY <1>18 DEF LoadFails, TreeOf, NoTree
<1>19. CASE LoadSchema
  BY <1>19 DEF LoadSchema, TreeOf, NoTree
<1>20. CASE EndLoad
  BY <1>20 DEF EndLoad, TreeOf, NoTree
<1> HIDE DEF PhaseInv
<1> QED
  BY StepCases, <1>1, <1>2, <1>3, <1>4, <1>5, <1>6, <1>7, <1>8, <1>9, <1>10,
     <1>11, <1>12, <1>13, <1>14, <1>15, <1>16, <1>17, <1>18, <1>19, <1>20

(* The steps, by what they do to files and pin. *)
Untouched == UNCHANGED <<tree, pin, gutted>>

LEMMA DiskCases ==
  ASSUME SyncTypeOK, [SyncNext]_vars
  PROVE  \/ Untouched
         \/ \E f \in Files : HandEdit(f)
         \/ \E f \in Files : RemoveFile(f)
         \/ RemovePin \/ RemoveDir \/ MakeDir
         \/ \E f \in Files : OpenFile(f)
         \/ \E f \in Files : FillFile(f)
         \/ OpenPin \/ WritePin
<1> USE DEF Untouched
<1>1. UNCHANGED vars => Untouched
  BY DEF vars
<1>2. ASSUME NEW w \in Releases \cup {Unset}, BumpVersion(w) PROVE Untouched
  BY <1>2 DEF BumpVersion
<1>3. StartSync \/ GitFails \/ Cloned \/ Copied \/ Die => Untouched
  BY DEF StartSync, GitFails, Cloned, Copied, Die
<1>4. StartLoad \/ LoadFails \/ LoadSchema \/ EndLoad => Untouched
  BY DEF StartLoad, LoadFails, LoadSchema, EndLoad
<1> HIDE DEF Untouched
<1> QED
  BY StepCases, <1>1, <1>2, <1>3, <1>4

(* One release on disk: only copying adds files, and what it adds to is the tree it *)
(* began itself; only writing the pin adds a pin, next to all of that tree.         *)
LEMMA ReleaseStep ==
  ASSUME SyncTypeOK, PhaseInv, OneRelease, [SyncNext]_vars
  PROVE  OneRelease'
<1> USE SyncAssumption DEF OneRelease
<1>1. CASE Untouched
  BY <1>1 DEF Untouched
<1>2. ASSUME NEW f \in Files, HandEdit(f) PROVE OneRelease'
  BY <1>2 DEF HandEdit, SyncTypeOK
<1>3. ASSUME NEW f \in Files, RemoveFile(f) PROVE OneRelease'
  BY <1>3 DEF RemoveFile, SyncTypeOK
<1>4. CASE RemovePin
  BY <1>4 DEF RemovePin
<1>5. CASE RemoveDir
  BY <1>5 DEF RemoveDir
<1>6. CASE MakeDir
  BY <1>6 DEF MakeDir
<1>7. ASSUME NEW f \in Files, OpenFile(f) PROVE OneRelease'
  BY <1>7 DEF OpenFile, SyncTypeOK
<1>8. ASSUME NEW f \in Files, FillFile(f) PROVE OneRelease'
  <2>1. pin' = Absent /\ \A g \in Files : tree'[g] \in {Absent, Partial, sync.tag}
    BY <1>8 DEF FillFile, PhaseInv, SyncTypeOK
  <2> QED
    BY <2>1
<1>9. CASE OpenPin
  BY <1>9 DEF OpenPin
<1>10. CASE WritePin
  <2>1. pin' = sync.tag /\ \A g \in Files : tree'[g] \in {Absent, sync.tag}
    BY <1>10 DEF WritePin, PhaseInv, TreeOf
  <2> QED
    BY <2>1
<1> HIDE DEF OneRelease
<1> QED
  BY DiskCases, <1>1, <1>2, <1>3, <1>4, <1>5, <1>6, <1>7, <1>8, <1>9, <1>10

(* A pin with its whole release: it is written next to it, and what removes a file *)
(* remembers that the tree is gutted.                                              *)
LEMMA PinStep ==
  ASSUME SyncTypeOK, PhaseInv, PinInv, [SyncNext]_vars
  PROVE  PinInv'
<1> USE SyncAssumption DEF PinInv
<1>1. CASE Untouched
  BY <1>1 DEF Untouched, TreeOf
<1>2. ASSUME NEW f \in Files, HandEdit(f) PROVE PinInv'
  BY <1>2 DEF HandEdit, SyncTypeOK, TreeOf
<1>3. ASSUME NEW f \in Files, RemoveFile(f) PROVE PinInv'
  BY <1>3 DEF RemoveFile, Disturb
<1>4. CASE RemovePin
  BY <1>4 DEF RemovePin
<1>5. CASE RemoveDir
  BY <1>5 DEF RemoveDir, Disturb
<1>6. CASE MakeDir
  BY <1>6 DEF MakeDir, Disturb
<1>7. ASSUME NEW f \in Files, OpenFile(f) PROVE PinInv'
  BY <1>7 DEF OpenFile, Disturb
<1>8. ASSUME NEW f \in Files, FillFile(f) PROVE PinInv'
  BY <1>8 DEF FillFile, Disturb
<1>9. CASE OpenPin
  BY <1>9 DEF OpenPin
<1>10. CASE WritePin
  BY <1>10 DEF WritePin, PhaseInv
<1> HIDE DEF PinInv
<1> QED
  BY DiskCases, <1>1, <1>2, <1>3, <1>4, <1>5, <1>6, <1>7, <1>8, <1>9, <1>10

(* An undisturbed load keeps its release: whatever changes files that are not edits *)
(* disturbs it, the pin that is written meanwhile is the release's own.             *)
LEMMA LoadKept ==
  ASSUME SyncTypeOK, PhaseInv, OneRelease, LoadInv, [SyncNext]_vars
  PROVE  LoadInv'
<1> USE SyncAssumption
<1>1. SUFFICES ASSUME ~load'.overlapped, ~StartLoad
               PROVE  LoadInv'
  <2>1. CASE load'.overlapped
    BY <2>1 DEF LoadInv
  <2>2. CASE StartLoad
    <3>1. \E r \in Releases :
            /\ pin \in {r, Absent, Partial}
            /\ \A f \in Files : tree[f] \in Releases => tree[f] = r
            /\ sync.phase \in {"copying", "opening", "writing"} => r = sync.tag
      <4>1. CASE sync.phase \in {"copying", "opening", "writing"}
        <5>1. sync.tag \in Releases
          BY DEF SyncTypeOK
        <5>2. pin \in {Absent, Partial}
          BY <4>1 DEF PhaseInv
        <5>3. \A f \in Files : tree[f] \in {Absent, Partial, sync.tag}
          BY <4>1 DEF PhaseInv, TreeOf
        <5> QED
          BY <5>1, <5>2, <5>3
      <4>2. CASE /\ sync.phase \notin {"copying", "opening", "writing"}
                 /\ \E f \in Files : tree[f] \in Releases
        <5>1. PICK f \in Files : tree[f] \in Releases
          BY <4>2
        <5> QED
          BY <4>2, <5>1 DEF OneRelease, SyncTypeOK
      <4>3. CASE /\ sync.phase \notin {"copying", "opening", "writing"}
                 /\ ~ \E f \in Files : tree[f] \in Releases
        <5>1. sync.tag \in Releases /\ pin \in Releases \cup {Absent, Partial}
          BY DEF SyncTypeOK
        <5> QED
          BY <4>3, <5>1
      <4> QED
        BY <4>1, <4>2, <4>3
    <3>2. PICK r \in Releases :
            /\ pin \in {r, Absent, Partial}
            /\ \A f \in Files : tree[f] \in Releases => tree[f] = r
            /\ sync.phase \in {"copying", "opening", "writing"} => r = sync.tag
      BY <3>1
    <3>3. load'.pinned = pin /\ load'.seen = << >> /\ UNCHANGED <<tree, pin, sync>>
      BY <2>2 DEF StartLoad
    <3>4. LoadsRelease(r)'
      BY <3>2, <3>3 DEF LoadsRelease
    <3> QED
      BY <3>4 DEF LoadInv
  <2> QED
    BY <2>1, <2>2
<1>2. ASSUME NEW A, A \in {"removing", "making", "copying"}, Disturb(A)
      PROVE  FALSE
  BY <1>1, <1>2 DEF Disturb, SyncTypeOK
<1>3. ~load.overlapped
  BY <1>1, StepCases DEF vars, BumpVersion, HandEdit, StartSync, GitFails, Cloned,
     RemoveFile, RemovePin, RemoveDir, MakeDir, OpenFile, FillFile, Disturb, Copied,
     OpenPin, WritePin, Die, LoadFails, LoadSchema, EndLoad, SyncTypeOK
<1>4. PICK r \in Releases : LoadsRelease(r)
  BY <1>3 DEF LoadInv
<1>5. LoadsRelease(r)'
  <2> USE <1>4 DEF LoadsRelease
  <2>1. CASE UNCHANGED vars
    BY <2>1 DEF vars
  <2>2. ASSUME NEW w \in Releases \cup {Unset}, BumpVersion(w) PROVE LoadsRelease(r)'
    BY <2>2 DEF BumpVersion
  <2>3. ASSUME NEW f \in Files, HandEdit(f) PROVE LoadsRelease(r)'
    BY <2>3 DEF HandEdit, SyncTypeOK
  <2>4. CASE StartSync
    BY <2>4 DEF StartSync
  <2>5. CASE GitFails \/ Cloned \/ Die
    BY <2>5 DEF GitFails, Cloned, Die, Enter, SyncTypeOK
  <2>6. ASSUME NEW f \in Files, RemoveFile(f) \/ OpenFile(f) \/ FillFile(f)
        PROVE  LoadsRelease(r)'
    BY <1>2, <2>6 DEF RemoveFile, OpenFile, FillFile
  <2>7. CASE RemovePin \/ RemoveDir \/ MakeDir
    BY <1>2, <2>7 DEF RemovePin, RemoveDir, MakeDir
  <2>8. CASE Copied
    BY <2>8 DEF Copied, Enter, SyncTypeOK
  <2>9. CASE OpenPin
    BY <2>9 DEF OpenPin, Enter, SyncTypeOK
  <2>10. CASE WritePin
    BY <2>10 DEF WritePin, Enter, SyncTypeOK
  <2>11. CASE LoadFails \/ EndLoad
    BY <2>11 DEF LoadFails, EndLoad, SyncTypeOK
  <2>12. CASE LoadSchema
    <3>1. /\ load.seen \in Seq(Releases \cup {Edited})
          /\ Len(load.seen) < Len(SchemaFiles)
      BY <2>12 DEF LoadSchema, SyncTypeOK
    <3>2. NextSchema \in Files
      BY <3>1 DEF NextSchema
    <3>3. tree[NextSchema] \in {r, Edited}
      BY <2>12, <3>2 DEF LoadSchema
    <3>4. load'.seen = Append(load.seen, tree[NextSchema]) /\ load'.pinned = load.pinned
      BY <2>12 DEF LoadSchema, SyncTypeOK
    <3>5. \A i \in DOMAIN load'.seen : load'.seen[i] \in {r, Edited}
      BY <3>1, <3>3, <3>4
    <3> QED
      BY <2>12, <3>4, <3>5 DEF LoadSchema
  <2> HIDE DEF LoadsRelease
  <2> QED
    BY StepCases, <1>1, <2>1, <2>2, <2>3, <2>4, <2>5, <2>6, <2>7, <2>8, <2>9, <2>10,
       <2>11, <2>12
<1> QED
  BY <1>5 DEF LoadInv

----------------------------------------------------------------------------
(* The inductive invariant of the sync and the loads: sync() and the loads of         *)
(* SchemaValidator in any interleaving, with syncs that die anywhere, keep it.        *)
THEOREM SyncInvariant == Spec => []SyncInv
<1>1. SyncInv /\ [SyncNext]_vars => SyncInv'
  BY TypeStep, PhaseStep, ReleaseStep, PinStep, LoadKept DEF SyncInv
<1> QED
  BY SyncInvInit, <1>1, PTL DEF Spec

(* The variables keep their types; the tag in the pin file is one a sync was started *)
(* for, whatever SPEC_VERSION has become since.                                      *)
THEOREM SyncTypeCorrect == Spec => []SyncTypeOK
<1>1. SyncInv => SyncTypeOK
  BY DEF SyncInv
<1> QED
  BY SyncInvariant, <1>1, PTL

(* For any number of releases, files and dead syncs, the unedited files of spec/ are *)
(* of one release, the pinned one if there is a pin: rmtree() before copytree().     *)
THEOREM FilesOfOneRelease == Spec => []OneRelease
<1>1. SyncInv => OneRelease
  BY DEF SyncInv
<1> QED
  BY SyncInvariant, <1>1, PTL

(* check(), which compares the pin alone, is right about every file but             *)
(* edited ones, unless a sync died after its first removal.                          *)
THEOREM CheckIsTrusted == Spec => []CheckTrusted
<1>1. SyncInv => CheckTrusted
  <2> SUFFICES ASSUME SyncInv, wanted # Unset, CheckOk(wanted), ~gutted,
                      NEW f \in Files
               PROVE  tree[f] \in {TreeOf(wanted)[f], Edited}
    BY DEF CheckTrusted
  <2>1. pin = wanted /\ pin \in Releases
    BY DEF SyncInv, SyncTypeOK, CheckOk
  <2> QED
    BY <2>1 DEF SyncInv, PinInv
<1> QED
  BY SyncInvariant, <1>1, PTL

(* A SchemaValidator that loads while no sync touches spec/ has schemas of one release, *)
(* the pinned one if there was a pin, for any list of schema files.                     *)
THEOREM ValidatorsLoadOneRelease == Spec => []LoadsOneRelease
<1>1. SyncInv => LoadsOneRelease
  BY DEF SyncInv, LoadInv, LoadsRelease, LoadsOneRelease
<1> QED
  BY SyncInvariant, <1>1, PTL

(* sync() that returns 0 has put its whole release and its pin in place; one that *)
(* returns 1, because of git, has changed nothing.                                *)
THEOREM SyncsDeliver == Spec => SyncDelivers
<1> DEFINE Delivers ==
      result' # result =>
        /\ result' = "synced" =>
             /\ dir' /\ tree' = TreeOf(sync'.tag)
             /\ pin' = sync'.tag
        /\ result' = "failed" => ~sync'.touched
<1>1. ASSUME SyncInv, [SyncNext]_vars PROVE Delivers
  <2>1. CASE WritePin
    <3>1. /\ sync.phase = "writing" /\ pin' = sync.tag /\ UNCHANGED <<tree, dir>>
          /\ result' = "synced" /\ sync'.tag = sync.tag
      BY <1>1, <2>1 DEF WritePin, Enter, SyncInv, SyncTypeOK
    <3>2. dir /\ tree = TreeOf(sync.tag)
      BY <1>1, <3>1 DEF SyncInv, PhaseInv
    <3> QED
      BY <3>1, <3>2 DEF TreeOf
  <2>2. CASE GitFails
    BY <1>1, <2>2 DEF GitFails, Enter, SyncInv, SyncTypeOK, PhaseInv
  <2>3. CASE StartSync
    BY <2>3 DEF StartSync
  <2>4. CASE Die
    BY <2>4 DEF Die
  <2>5. CASE ~ (WritePin \/ GitFails \/ StartSync \/ Die)
    <3>1. result' = result
      BY <1>1, <2>5, StepCases DEF vars, BumpVersion, HandEdit, Cloned, RemoveFile, RemovePin,
         RemoveDir, MakeDir, OpenFile, FillFile, Copied, OpenPin, StartLoad, LoadFails,
         LoadSchema, EndLoad
    <3> QED
      BY <3>1
  <2> QED
    BY <2>1, <2>2, <2>3, <2>4, <2>5
<1>2. SyncInv /\ [SyncNext]_vars => [Delivers]_vars
  BY <1>1
<1> QED
  BY SyncInvariant, <1>2, PTL DEF Spec, SyncDelivers
=============================================================================
