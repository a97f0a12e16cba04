------------------------------ MODULE SyncSpec ------------------------------
(***************************************************************************)
(* tools/sync_spec.py, which rebuilds spec/ from the release SPEC_VERSION  *)
(* names, and agents/shared/schema_validator.py, which loads its schemas   *)
(* from spec/, possibly while a sync runs.                                 *)
(*                                                                         *)
(* The sync is a sequence of file operations; it may die between any two   *)
(* of them (a signal, or an OSError, which main() does not catch), and the *)
(* next sync or load meets what it left.  A file holds a release's text, a *)
(* part of it, or something written by hand.  At most one sync runs at a   *)
(* time, and nobody edits spec/ by hand while it removes or copies.        *)
(***************************************************************************)
EXTENDS Naturals, Sequences

CONSTANTS
  Releases,     \* the tags of the specification repository
  Files,        \* the files of its releases
  ReleaseFiles, \* the files each release has
  SchemaFiles,  \* the schema files, in the order they are loaded
  Absent,       \* no such file
  Partial,      \* a file of which only a part was written
  Edited,       \* a file changed by hand
  Unset         \* an empty SPEC_VERSION

ASSUME SyncAssumption ==
  /\ ReleaseFiles \in [Releases -> SUBSET Files]
  /\ SchemaFiles \in Seq(Files)
  /\ Absent # Partial
  /\ {Absent, Partial} \cap Releases = {}
  /\ Edited \notin Releases \cup {Absent, Partial}
  /\ Unset \notin Releases \cup {Absent, Partial}

VARIABLES
  wanted,  \* SPEC_VERSION: a tag, or Unset
  tree,    \* the files of spec/
  dir,     \* spec/ exists
  pin,     \* spec/.pin: Absent, Partial (opened, still empty) or a tag
  sync,    \* the running sync: its phase, the tag it was started for, and
           \* whether it has changed spec/ yet (history)
  result,  \* of the last sync: synced (0), failed (1) or died; none meanwhile
  gutted,  \* history: entries were removed or copied since the last pin
  load     \* the loading of the schemas; overlapped is history

vars == <<wanted, tree, dir, pin, sync, result, gutted, load>>

Contents == Releases \cup {Absent, Partial, Edited}
Phases   == {"idle", "cloning", "removing", "making", "copying", "opening", "writing"}
Results  == {"none", "synced", "failed", "died"}

\* What spec/ holds when release r is all of it.
TreeOf(r) == [f \in Files |-> IF f \in ReleaseFiles[r] THEN r ELSE Absent]

NoTree == [f \in Files |-> Absent]

\* --check: the tag in the pin file is all that is compared.
CheckOk(tag) == pin = tag

SyncInit ==
  /\ wanted \in Releases
  /\ tree = NoTree
  /\ dir = FALSE
  /\ pin = Absent
  /\ sync = [phase |-> "idle", tag |-> wanted, touched |-> FALSE]
  /\ result = "none"
  /\ gutted = FALSE
  /\ load = [phase |-> "idle", seen |-> << >>, pinned |-> Absent, overlapped |-> FALSE]

----------------------------------------------------------------------------
(* The people around it *)

\* SPEC_VERSION is changed by a commit or a checkout, at any time.
BumpVersion(w) ==
  /\ wanted' = w
  /\ UNCHANGED <<tree, dir, pin, sync, result, gutted, load>>

\* A file of spec/ is changed or added by hand, also while the clone runs.
HandEdit(f) ==
  /\ sync.phase \in {"idle", "cloning"}
  /\ dir
  /\ tree' = [tree EXCEPT ![f] = Edited]
  /\ UNCHANGED <<wanted, dir, pin, sync, result, gutted, load>>

----------------------------------------------------------------------------
(* sync() *)

Enter(phase) == sync' = [sync EXCEPT !.phase = phase]

\* The sync changes spec/, under whoever is loading, and goes on to a phase.
Disturb(phase) ==
  /\ sync' = [sync EXCEPT !.phase = phase, !.touched = TRUE]
  /\ gutted' = TRUE
  /\ load' = [load EXCEPT !.overlapped = TRUE]

\* Mutant: a sync that has nothing to do when the check is satisfied.
StartSyncUnlessPinned ==
  /\ sync.phase = "idle"
  /\ wanted # Unset
  /\ IF CheckOk(wanted)
       THEN result' = "synced" /\ sync' = [sync EXCEPT !.tag = wanted]
       ELSE /\ sync' = [phase |-> "cloning", tag |-> wanted, touched |-> FALSE]
            /\ result' = "none"
  /\ UNCHANGED <<wanted, tree, dir, pin, gutted, load>>

\* main() reads the tag; with an empty SPEC_VERSION it exits at once.
StartSync ==
  /\ sync.phase = "idle"
  /\ wanted # Unset
  /\ sync' = [phase |-> "cloning", tag |-> wanted, touched |-> FALSE]
  /\ result' = "none"
  /\ UNCHANGED <<wanted, tree, dir, pin, gutted, load>>

\* git clone or git rev-parse fails: the only exception that is handled.
GitFails ==
  /\ sync.phase = "cloning"
  /\ result' = "failed"
  /\ Enter("idle")
  /\ UNCHANGED <<wanted, tree, dir, pin, gutted, load>>

\* The release has been cloned; spec/ is removed if it is there.
Cloned ==
  /\ sync.phase = "cloning"
  /\ Enter(IF dir THEN "removing" ELSE "making")
  /\ UNCHANGED <<wanted, tree, dir, pin, result, gutted, load>>

\* rmtree removes the entries in the order the directory lists them, which
\* is any order, the pin file among them.
RemoveFile(f) ==
  /\ sync.phase = "removing"
  /\ tree[f] # Absent
  /\ tree' = [tree EXCEPT ![f] = Absent]
  /\ Disturb("removing")
  /\ UNCHANGED <<wanted, dir, pin, result>>

RemovePin ==
  /\ sync.phase = "removing"
  /\ pin # Absent
  /\ pin' = Absent
  /\ Disturb("removing")
  /\ UNCHANGED <<wanted, tree, dir, result>>

\* Mutant: rmtree with ignore_errors, copytree with dirs_exist_ok.
RemoveDirLenient ==
  /\ sync.phase = "removing"
  /\ pin = Absent
  /\ dir' = FALSE
  /\ Disturb("making")
  /\ UNCHANGED <<wanted, tree, pin, result>>

RemoveDir ==
  /\ sync.phase = "removing"
  /\ tree = NoTree
  /\ pin = Absent
  /\ dir' = FALSE
  /\ Disturb("making")
  /\ UNCHANGED <<wanted, tree, pin, result>>

\* copytree makes the directory, then its files one after another.
MakeDir ==
  /\ sync.phase = "making"
  /\ dir' = TRUE
  /\ Disturb("copying")
  /\ UNCHANGED <<wanted, tree, pin, result>>

OpenFile(f) ==
  /\ sync.phase = "copying"
  /\ f \in ReleaseFiles[sync.tag]
  /\ tree[f] = Absent
  /\ tree' = [tree EXCEPT ![f] = Partial]
  /\ Disturb("copying")
  /\ UNCHANGED <<wanted, dir, pin, result>>

FillFile(f) ==
  /\ sync.phase = "copying"
  /\ tree[f] = Partial
  /\ tree' = [tree EXCEPT ![f] = sync.tag]
  /\ Disturb("copying")
  /\ UNCHANGED <<wanted, dir, pin, result>>

Copied ==
  /\ sync.phase = "copying"
  /\ tree = TreeOf(sync.tag)
  /\ Enter("opening")
  /\ UNCHANGED <<wanted, tree, dir, pin, result, gutted, load>>

\* write_text opens the pin file, which empties it, and writes the tag.
OpenPin ==
  /\ sync.phase = "opening"
  /\ pin' = Partial
  /\ Enter("writing")
  /\ UNCHANGED <<wanted, tree, dir, result, gutted, load>>

\* Mutant: SPEC_VERSION is read again for the pin.
WritePinWanted ==
  /\ sync.phase = "writing"
  /\ pin' = wanted
  /\ result' = "synced"
  /\ gutted' = FALSE
  /\ Enter("idle")
  /\ UNCHANGED <<wanted, tree, dir, load>>

WritePin ==
  /\ sync.phase = "writing"
  /\ pin' = sync.tag
  /\ result' = "synced"
  /\ gutted' = FALSE
  /\ Enter("idle")
  /\ UNCHANGED <<wanted, tree, dir, load>>

\* Killed, or a file operation raises: nothing is undone.
Die ==
  /\ sync.phase # "idle"
  /\ result' = "died"
  /\ Enter("idle")
  /\ UNCHANGED <<wanted, tree, dir, pin, gutted, load>>

----------------------------------------------------------------------------
(* SchemaValidator.__init__ *)

StartLoad ==
  /\ load.phase \in {"idle", "loaded", "refused"}
  /\ load' = [phase |-> "loading", seen |-> << >>, pinned |-> pin,
              overlapped |-> FALSE]
  /\ UNCHANGED <<wanted, tree, dir, pin, sync, result, gutted>>

NextSchema == SchemaFiles[Len(load.seen) + 1]

\* A missing file, JSON that breaks off, or a hand-made schema that is none.
LoadFails ==
  /\ load.phase = "loading"
  /\ Len(load.seen) < Len(SchemaFiles)
  /\ tree[NextSchema] \in {Absent, Partial, Edited}
  /\ load' = [load EXCEPT !.phase = "refused"]
  /\ UNCHANGED <<wanted, tree, dir, pin, sync, result, gutted>>

LoadSchema ==
  /\ load.phase = "loading"
  /\ Len(load.seen) < Len(SchemaFiles)
  /\ tree[NextSchema] \in Releases \cup {Edited}
  /\ load' = [load EXCEPT !.seen = Append(@, tree[NextSchema])]
  /\ UNCHANGED <<wanted, tree, dir, pin, sync, result, gutted>>

EndLoad ==
  /\ load.phase = "loading"
  /\ Len(load.seen) = Len(SchemaFiles)
  /\ load' = [load EXCEPT !.phase = "loaded"]
  /\ UNCHANGED <<wanted, tree, dir, pin, sync, result, gutted>>

----------------------------------------------------------------------------
SyncStep ==
  \/ StartSync \/ GitFails \/ Cloned \/ RemovePin \/ RemoveDir
  \/ MakeDir \/ Copied \/ OpenPin \/ WritePin \/ Die
  \/ \E f \in Files : RemoveFile(f) \/ OpenFile(f) \/ FillFile(f)

LoadStep == StartLoad \/ LoadFails \/ LoadSchema \/ EndLoad

SyncNext ==
  \/ \E w \in Releases \cup {Unset} : BumpVersion(w)
  \/ \E f \in Files : HandEdit(f)
  \/ SyncStep
  \/ LoadStep

Spec == SyncInit /\ [][SyncNext]_vars

----------------------------------------------------------------------------
(* Properties *)

\* The variables keep their types; in particular the pin holds a tag that a
\* sync was started for, whatever becomes of SPEC_VERSION in the meantime.
SyncTypeOK ==
  /\ wanted \in Releases \cup {Unset}
  /\ tree \in [Files -> Contents]
  /\ dir \in BOOLEAN
  /\ pin \in Releases \cup {Absent, Partial}
  /\ sync \in [phase : Phases, tag : Releases, touched : BOOLEAN]
  /\ result \in Results
  /\ gutted \in BOOLEAN
  /\ load \in [phase : {"idle", "loading", "loaded", "refused"},
               seen : Seq(Releases \cup {Edited}),
               pinned : Releases \cup {Absent, Partial},
               overlapped : BOOLEAN]

\* However many syncs to however many releases died half way, the files of
\* spec/ that nobody edited come from one release, and it is the pinned one.
OneRelease ==
  \A f \in Files :
    tree[f] \in Releases =>
      /\ pin \in Releases => pin = tree[f]
      /\ \A g \in Files : tree[g] \in Releases => tree[g] = tree[f]

\* The check by pin is right about the whole tree, unless a sync died after
\* it had begun to remove or a file was edited by hand: neither a version
\* that changes during a sync nor a sync that dies earlier misleads it.
CheckTrusted ==
  wanted # Unset /\ CheckOk(wanted) /\ ~gutted =>
    \A f \in Files : tree[f] \in {TreeOf(wanted)[f], Edited}

\* A validator that no sync disturbed has loaded schemas of one release, the
\* pinned one if there was a pin, and no fragment of a file, even in a tree
\* that an interrupted sync left behind.
LoadsOneRelease ==
  load.phase = "loaded" /\ ~load.overlapped =>
    \E r \in Releases :
      /\ load.pinned \in {r, Absent, Partial}
      /\ \A i \in DOMAIN load.seen : load.seen[i] \in {r, Edited}

\* A sync that returns 0 leaves the whole release it was started for and its
\* pin, and no edit survives; one that returns 1 has not changed spec/ or
\* its pin.
SyncDelivers ==
  [][result' # result =>
       /\ result' = "synced" =>
            /\ dir' /\ tree' = TreeOf(sync'.tag)
            /\ pin' = sync'.tag
       /\ result' = "failed" => ~sync'.touched]_vars
=============================================================================
