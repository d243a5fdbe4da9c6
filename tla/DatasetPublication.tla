------------------------- MODULE DatasetPublication -------------------------
(***************************************************************************)
(* generate_dataset of the generator: a dataset is written to a staging    *)
(* directory of its own, the previous one is renamed to a backup, the new  *)
(* one is renamed to its place and the backup is removed.  Several         *)
(* processes may do so at once, any of them may die, and any call of the   *)
(* file system may fail.                                                   *)
(***************************************************************************)
EXTENDS Naturals

CONSTANTS
    Generator,              \* processes that run with the same output directory
    Dataset,
    makes,                  \* the dataset that a process generates
    Overwriting,            \* the processes that run with --overwrite
    Absent, Empty, Foreign, \* no directory, an empty one, one with other files only
    Remains                 \* what a removal that was broken off left of a backup

ASSUME PublicationAssumption ==
    /\ makes \in [Generator -> Dataset]
    /\ Absent \notin Dataset \cup {Empty, Foreign, Remains}
    /\ Empty \notin Dataset \cup {Foreign, Remains}
    /\ Foreign \notin Dataset /\ Remains \notin Dataset

VARIABLES
    output,     \* what config.output_directory holds
    backup,     \* what its backup directory holds
    phase,      \* where each process is
    moved,      \* its local previous_moved
    latest,     \* history: the dataset that was in place last
    wasEmpty    \* history: whether the output directory was there and empty at first

filesVars == <<output, backup, phase, moved, latest, wasEmpty>>

Phase == {"idle", "writing", "written", "unbacked", "moving", "placing", "restoring",
          "clearing", "cleared"}

PublicationTypeOK ==
    /\ output \in Dataset \cup {Absent, Empty, Foreign, Remains}
    /\ backup \in Dataset \cup {Absent, Empty, Foreign, Remains}
    /\ phase \in [Generator -> Phase]
    /\ moved \in [Generator -> BOOLEAN]
    /\ latest \in Dataset \cup {Absent, Empty, Foreign}
    /\ wasEmpty \in BOOLEAN

PublicationInit ==
    /\ output \in Dataset \cup {Absent, Empty, Foreign}
    /\ backup = Absent
    /\ phase = [g \in Generator |-> "idle"]
    /\ moved = [g \in Generator |-> FALSE]
    /\ latest = output
    /\ wasEmpty = (output = Empty)

Go(g, from, to) == phase[g] = from /\ phase' = [phase EXCEPT ![g] = to]
\* The process reports its error, or dies; its staging directory does not matter any more.
Stop(g, from) == Go(g, from, "idle") /\ moved' = [moved EXCEPT ![g] = FALSE]
InPlace == UNCHANGED <<output, backup, latest>>

-----------------------------------------------------------------------------
(* Writing *)

\* prepare_output: any file of a dataset is a conflict unless it may be overwritten.
Prepare(g) ==
    /\ output \in Dataset \cup {Remains} => g \in Overwriting
    /\ Go(g, "idle", "writing")
    /\ moved' = [moved EXCEPT ![g] = FALSE]
    /\ InPlace

\* _write_staging_dataset and the manifest.
Write(g) == Go(g, "writing", "written") /\ InPlace /\ UNCHANGED moved

-----------------------------------------------------------------------------
(* _publish, one call of the file system at a time *)

CheckBackup(g) ==
    /\ IF backup = Absent THEN Go(g, "written", "unbacked") /\ UNCHANGED moved
                          ELSE Stop(g, "written")
    /\ InPlace

CheckOutput(g) ==
    /\ Go(g, "unbacked", IF output = Absent THEN "placing" ELSE "moving")
    /\ InPlace
    /\ UNCHANGED moved

\* os.replace accepts a target that is absent or an empty directory.
Free(directory) == directory \in {Absent, Empty}

\* Mutant: the previous dataset is given up before the new one is in place.
MoveOutputAway(g) ==
    /\ output # Absent
    /\ Free(backup)
    /\ Go(g, "moving", "placing")
    /\ output' = Absent
    /\ UNCHANGED <<backup, moved, latest>>

MoveOutput(g) ==
    /\ output # Absent
    /\ Free(backup)
    /\ Go(g, "moving", "placing")
    /\ backup' = output
    /\ output' = Absent
    /\ moved' = [moved EXCEPT ![g] = TRUE]
    /\ UNCHANGED latest

PlaceStaging(g) ==
    /\ Free(output)
    /\ Go(g, "placing", IF moved[g] THEN "clearing" ELSE "idle")
    /\ output' = makes[g]
    /\ latest' = makes[g]
    /\ UNCHANGED <<backup, moved>>

\* A call that fails, because the directories are not what it needs or for a reason of
\* its own, is rolled back if the previous dataset was moved.
FailToPlace(g) ==
    /\ phase[g] = "placing"
    /\ IF moved[g] THEN Go(g, "placing", "restoring") /\ UNCHANGED moved ELSE Stop(g, "placing")
    /\ InPlace

Restore(g) ==
    /\ backup # Absent
    /\ Free(output)
    /\ Stop(g, "restoring")
    /\ output' = backup
    /\ backup' = Absent
    /\ UNCHANGED latest

\* rmtree takes the files first and the directory last.
ClearBackup(g) ==
    /\ backup # Absent
    /\ Go(g, "clearing", "cleared")
    /\ backup' = Empty
    /\ UNCHANGED <<output, moved, latest>>

BreakOffClearing(g) ==
    /\ backup \notin {Absent, Empty}
    /\ Stop(g, "clearing")
    /\ backup' = Remains
    /\ UNCHANGED <<output, latest>>

RemoveBackup(g) ==
    /\ backup = Empty
    /\ Stop(g, "cleared")
    /\ backup' = Absent
    /\ UNCHANGED <<output, latest>>

\* A failure or the end of the process anywhere else changes no directory that others see.
GiveUp(g) ==
    /\ phase[g] # "idle"
    /\ Stop(g, phase[g])
    /\ InPlace

Generate(g) ==
    \/ Prepare(g) \/ Write(g) \/ CheckBackup(g) \/ CheckOutput(g) \/ MoveOutput(g)
    \/ PlaceStaging(g) \/ FailToPlace(g) \/ Restore(g)
    \/ ClearBackup(g) \/ BreakOffClearing(g) \/ RemoveBackup(g) \/ GiveUp(g)

PublicationNext == \E g \in Generator : Generate(g) /\ UNCHANGED wasEmpty
PublicationSpec == PublicationInit /\ [][PublicationNext]_filesVars

-----------------------------------------------------------------------------
(* Properties *)

\* The dataset that was in place last is in place or in the backup, whatever failed, died
\* or ran at the same time.  (Not so when the output directory was there and empty: its
\* empty backup then yields to the rename of a second process, which the first removes.)
LatestIsThere == ~wasEmpty /\ latest \in Dataset => latest \in {output, backup}
=============================================================================
