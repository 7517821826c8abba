--------------------------- MODULE ProjectArtifacts ---------------------------
(***************************************************************************)
(* How `talac` publishes one object or assembly file per project source:   *)
(* PlanSourceOutputs names the outputs, ProcessProjectCoreBytes lowers each *)
(* source, and CommitArtifactFiles replaces the files of the output        *)
(* directory as a batch, with a private staging directory, backups and a   *)
(* rollback.                                                               *)
(*                                                                         *)
(* A build is one compiler process.  Every file-system call is one step    *)
(* that may fail, and a process may be killed between any two of them.     *)
(* The contents of a directory entry are told apart by who wrote them.     *)
(***************************************************************************)
EXTENDS Naturals, Sequences

CONSTANTS
    Builds,       \* the compiler processes
    Names,        \* the output names, of every source of every build
    Batches,      \* the sequences of names a build may be asked to write
    Fold,         \* Fold[n] is FoldAscii(n)
    Entry,        \* Entry[n] is the directory entry n names on this volume
    NonAscii,     \* the names with a byte above 0x7F
    MaxAttempts,  \* the names a TransactionDirectory tries (128)
    Leftovers     \* which staging directories killed builds may have left

ASSUME PAConstants ==
    /\ Batches \subseteq Seq(Names)
    /\ NonAscii \subseteq Names
    /\ MaxAttempts \in Nat \ {0}
    /\ Leftovers \subseteq SUBSET (0 .. MaxAttempts - 1)
    \* A file system may fold more than ASCII case, but not of ASCII names.
    /\ \A m, n \in Names \ NonAscii : Entry[m] = Entry[n] => Fold[m] = Fold[n]

VARIABLES
    directory,   \* the entries of the output directory
    reserved,    \* the nonces whose ".tala-artifacts-N" directory exists
    new,         \* new[d][i]: the contents of "new-i" in staging directory d
    old,         \* old[d][i]: the contents of "old-i" in staging directory d
    pc,          \* where a build is
    files,       \* the names of a build's batch, in order
    nonce,       \* the nonce a build tries, then the one it reserved
    index,       \* the loop variable of a build
    replacement, \* a build's PendingReplacement records
    incomplete,  \* whether a build's rollback recorded a failure
    outcome,     \* what CommitArtifactFiles returned, or is about to
    before,      \* the output directory when a build started
    latest,      \* the builds that started last, as a set of at most one
    alone,       \* whether no other build has run at the same time
    found        \* the staging directories there were before all builds

paVars == <<directory, reserved, new, old, pc, files, nonce, index,
            replacement, incomplete, outcome, before, latest, alone, found>>

-----------------------------------------------------------------------------
Entries == {Entry[n] : n \in Names}
Nonces == 0 .. MaxAttempts - 1
Positions == UNION {DOMAIN b : b \in Batches}

Absent == [by |-> "nobody", at |-> 0]
Subdirectory == [by |-> "directory", at |-> 0]
Earlier == [by |-> "earlier", at |-> 0]
Written(b, i) == [by |-> b, at |-> i]
Contents == {Absent, Subdirectory, Earlier}
                \union {Written(b, i) : b \in Builds, i \in Positions}

Untouched == [had_original |-> FALSE, backed_up |-> FALSE, installed |-> FALSE]
Ended == {"returned", "residue", "crashed"}
Active(b) == pc[b] \notin Ended \union {"idle"}
Destination(b, i) == Entry[files[b][i]]
Batch(b) == DOMAIN files[b]

PAInit ==
    /\ directory \in [Entries -> {Absent, Subdirectory, Earlier}]
    /\ found \in Leftovers
    /\ reserved = found
    /\ new = [d \in Nonces |-> [i \in Positions |-> Absent]]
    /\ old = [d \in Nonces |-> [i \in Positions |-> Absent]]
    /\ pc = [b \in Builds |-> "idle"]
    /\ files = [b \in Builds |-> <<>>]
    /\ nonce = [b \in Builds |-> 0]
    /\ index = [b \in Builds |-> 1]
    /\ replacement = [b \in Builds |-> [i \in Positions |-> Untouched]]
    /\ incomplete = [b \in Builds |-> FALSE]
    /\ outcome = [b \in Builds |-> "none"]
    /\ before = [b \in Builds |-> directory]
    /\ latest = {}
    /\ alone = [b \in Builds |-> TRUE]

-----------------------------------------------------------------------------
Goto(b, there) == pc' = [pc EXCEPT ![b] = there]
Returns(b, what) == outcome' = [outcome EXCEPT ![b] = what]
At(b, i) == index' = [index EXCEPT ![b] = i]

(* An error before the staging directory exists: nothing to clean up. *)
Stop(b) == Goto(b, "returned") /\ Returns(b, "failed")

\* Mutant: the destructor forgets the staging directory.
QuitKeeping(b) == Goto(b, "returned") /\ Returns(b, "failed")

(* An error after that: the destructor of TransactionDirectory runs. *)
Quit(b) == Goto(b, "cleanup") /\ Returns(b, "failed")

Untouchable == <<directory, new, old, replacement>>
Staging == <<reserved, nonce>>
Batching == <<files, before, latest, alone, found>>

(* PlanSourceOutputs: there is a source, and no two flatten to one name.   *)
(* It also refuses paths that are not portable, and the pipeline before it *)
(* may fail, for reasons that names do not show.                           *)
Plan(b) ==
    /\ pc[b] = "idle"
    /\ \E batch \in Batches :
        /\ files' = [files EXCEPT ![b] = batch]
        /\ \/ /\ batch # <<>>
              /\ \A i, j \in DOMAIN batch : Fold[batch[i]] = Fold[batch[j]] => i = j
              /\ Goto(b, "lower")
              /\ UNCHANGED outcome
           \/ Stop(b)
    /\ before' = [before EXCEPT ![b] = directory]
    /\ latest' = {b}
    /\ alone' = [other \in Builds |->
                   IF other = b THEN \A c \in Builds : ~Active(c)
                   ELSE alone[other] /\ ~Active(other)]
    /\ UNCHANGED <<found, Untouchable, Staging, index, incomplete>>

(* Every source is lowered before the first file is written, then           *)
(* create_directories makes the output directory.                          *)
Lower(b) ==
    /\ pc[b] = "lower"
    /\ \/ Stop(b)
       \/ Goto(b, "reserve") /\ UNCHANGED outcome
    /\ UNCHANGED <<Untouchable, Staging, Batching, index, incomplete>>

\* Mutant: a directory that exists already is taken for a new one.
ReserveExisting(b) ==
    /\ pc[b] = "reserve"
    /\ reserved' = reserved \union {nonce[b]}
    /\ Goto(b, "probe")
    /\ UNCHANGED <<Untouchable, nonce, outcome, Batching, index, incomplete>>

(* One round of the constructor of TransactionDirectory. *)
Reserve(b) ==
    /\ pc[b] = "reserve"
    /\ IF nonce[b] \in reserved
         THEN IF nonce[b] + 1 \in Nonces
                THEN /\ nonce' = [nonce EXCEPT ![b] = @ + 1]
                     /\ UNCHANGED <<reserved, pc, outcome>>
                ELSE Stop(b) /\ UNCHANGED Staging
         ELSE \/ /\ reserved' = reserved \union {nonce[b]}
                 /\ Goto(b, "probe")
                 /\ UNCHANGED <<nonce, outcome>>
              \/ Stop(b) /\ UNCHANGED Staging
    /\ UNCHANGED <<Untouchable, Batching, index, incomplete>>

\* Mutant: the case-folded comparison is taken to be enough for any name.
ProbeNamesNever(b) ==
    /\ pc[b] = "probe"
    /\ Goto(b, "stage")
    /\ UNCHANGED <<Untouchable, Staging, Batching, index, outcome, incomplete>>

(* Unicode names that the volume takes for one entry collide here. *)
ProbeNames(b) ==
    /\ pc[b] = "probe"
    /\ \/ /\ \E i \in Batch(b) : files[b][i] \in NonAscii
          /\ Quit(b)
       \/ /\ \/ \A i \in Batch(b) : files[b][i] \notin NonAscii
             \/ \A i, j \in Batch(b) :
                    Destination(b, i) = Destination(b, j) => i = j
          /\ Goto(b, "stage")
          /\ UNCHANGED outcome
    /\ UNCHANGED <<Untouchable, Staging, Batching, index, incomplete>>

(* The next index of a loop over the batch, or the code after it. *)
Advance(b, here, after) ==
    IF index[b] < Len(files[b])
      THEN At(b, index[b] + 1) /\ Goto(b, here)
      ELSE At(b, 1) /\ Goto(b, after)

WriteStagedFile(b) ==
    /\ pc[b] = "stage"
    /\ \/ /\ new' = [new EXCEPT ![nonce[b]][index[b]] = Written(b, index[b])]
          /\ Advance(b, "stage", "inspect")
          /\ UNCHANGED outcome
       \/ Quit(b) /\ UNCHANGED <<new, index>>
    /\ UNCHANGED <<directory, old, replacement, Staging, Batching, incomplete>>

InspectDestination(b) ==
    LET existing == directory[Destination(b, index[b])] IN
    /\ pc[b] = "inspect"
    /\ \/ /\ existing # Subdirectory
          /\ replacement' = [replacement EXCEPT
                ![b][index[b]].had_original = (existing # Absent)]
          /\ Advance(b, "inspect", "replace")
          /\ UNCHANGED outcome
       \/ Quit(b) /\ UNCHANGED <<replacement, index>>
    /\ UNCHANGED <<directory, new, old, Staging, Batching, incomplete>>

\* Mutant: the record whose rename failed is not rolled back.
AbortSkipsCurrent(b) ==
    /\ Goto(b, "rollback")
    /\ At(b, index[b] - 1)
    /\ Returns(b, "failed")
    /\ UNCHANGED Untouchable

(* AbortReplacement starts RollBack at the last record of the batch. *)
Abort(b) ==
    /\ Goto(b, "rollback")
    /\ At(b, Len(files[b]))
    /\ Returns(b, "failed")
    /\ UNCHANGED Untouchable

(* rename(destination, backup), which needs something to move. *)
BackUp(b) ==
    LET i == index[b]
        d == Destination(b, i) IN
    /\ pc[b] = "replace"
    /\ replacement[b][i].had_original /\ ~replacement[b][i].backed_up
    /\ \/ /\ directory[d] # Absent
          /\ old' = [old EXCEPT ![nonce[b]][i] = directory[d]]
          /\ directory' = [directory EXCEPT ![d] = Absent]
          /\ replacement' = [replacement EXCEPT ![b][i].backed_up = TRUE]
          /\ UNCHANGED <<new, pc, index, outcome>>
       \/ Abort(b)
    /\ UNCHANGED <<Staging, Batching, incomplete>>

(* rename(staged file, destination), which replaces a file that is there.  *)
Install(b) ==
    LET i == index[b]
        d == Destination(b, i) IN
    /\ pc[b] = "replace"
    /\ replacement[b][i].had_original => replacement[b][i].backed_up
    /\ \/ /\ directory[d] # Subdirectory
          /\ directory' = [directory EXCEPT ![d] = new[nonce[b]][i]]
          /\ new' = [new EXCEPT ![nonce[b]][i] = Absent]
          /\ replacement' = [replacement EXCEPT ![b][i].installed = TRUE]
          /\ Advance(b, "replace", "cleanup")
          /\ IF i = Len(files[b]) THEN Returns(b, "committed")
                                  ELSE UNCHANGED outcome
          /\ UNCHANGED old
       \/ Abort(b)
    /\ UNCHANGED <<Staging, Batching, incomplete>>

-----------------------------------------------------------------------------
(* RollBack, from the last record to the first.                            *)

(* A failure is recorded, and the loop goes on with the record before. *)
RecordFailure(b) ==
    /\ incomplete' = [incomplete EXCEPT ![b] = TRUE]
    /\ At(b, index[b] - 1)
    /\ UNCHANGED Untouchable

RemoveInstalled(b) ==
    LET i == index[b] IN
    /\ pc[b] = "rollback" /\ i # 0
    /\ replacement[b][i].installed
    /\ \/ /\ directory' = [directory EXCEPT ![Destination(b, i)] = Absent]
          /\ replacement' = [replacement EXCEPT ![b][i].installed = FALSE]
          /\ UNCHANGED <<new, old, index, incomplete>>
       \/ RecordFailure(b)
    /\ UNCHANGED <<pc, outcome, Staging, Batching>>

RestoreBackup(b) ==
    LET i == index[b] IN
    /\ pc[b] = "rollback" /\ i # 0
    /\ ~replacement[b][i].installed /\ replacement[b][i].backed_up
    /\ \/ /\ directory' = [directory EXCEPT ![Destination(b, i)] = old[nonce[b]][i]]
          /\ old' = [old EXCEPT ![nonce[b]][i] = Absent]
          /\ replacement' = [replacement EXCEPT ![b][i].backed_up = FALSE]
          /\ At(b, i - 1)
          /\ UNCHANGED <<new, incomplete>>
       \/ RecordFailure(b)
    /\ UNCHANGED <<pc, outcome, Staging, Batching>>

SkipReplacement(b) ==
    /\ pc[b] = "rollback" /\ index[b] # 0
    /\ ~replacement[b][index[b]].installed
    /\ ~replacement[b][index[b]].backed_up
    /\ At(b, index[b] - 1)
    /\ UNCHANGED <<Untouchable, pc, outcome, incomplete, Staging, Batching>>

\* Mutant: the staging tree is removed whatever the rollback could do.
EndRollBackAlike(b) ==
    /\ pc[b] = "rollback" /\ index[b] = 0
    /\ Goto(b, "cleanup")
    /\ UNCHANGED <<Untouchable, index, incomplete, outcome, Staging, Batching>>

(* AbortReplacement: the staging tree survives an incomplete rollback. *)
EndRollBack(b) ==
    /\ pc[b] = "rollback" /\ index[b] = 0
    /\ IF incomplete[b] THEN Goto(b, "returned") /\ Returns(b, "incomplete")
                        ELSE Goto(b, "cleanup") /\ UNCHANGED outcome
    /\ UNCHANGED <<Untouchable, index, incomplete, Staging, Batching>>

Without(entries, gone) ==
    [i \in Positions |-> IF i \in gone THEN Absent ELSE entries[i]]

(* remove_all, whose errors are ignored: whatever it could not remove stays. *)
RemoveStaging(b) ==
    LET n == nonce[b] IN
    /\ pc[b] = "cleanup"
    /\ \/ /\ reserved' = reserved \ {n}
          /\ new' = [new EXCEPT ![n] = [i \in Positions |-> Absent]]
          /\ old' = [old EXCEPT ![n] = [i \in Positions |-> Absent]]
          /\ Goto(b, "returned")
       \/ /\ new' \in {[new EXCEPT ![n] = Without(@, gone)] : gone \in SUBSET Positions}
          /\ old' \in {[old EXCEPT ![n] = Without(@, gone)] : gone \in SUBSET Positions}
          /\ Goto(b, "residue")
          /\ UNCHANGED reserved
    /\ UNCHANGED <<directory, replacement, nonce, index, incomplete, outcome, Batching>>

(* The process is killed; what it asked of the file system stands.    *)
Crash(b) ==
    /\ Active(b)
    /\ Goto(b, "crashed")
    /\ UNCHANGED <<Untouchable, Staging, Batching, index, incomplete, outcome>>

Step(b) ==
    \/ Plan(b) \/ Lower(b) \/ Reserve(b) \/ ProbeNames(b)
    \/ WriteStagedFile(b) \/ InspectDestination(b) \/ BackUp(b) \/ Install(b)
    \/ RemoveInstalled(b) \/ RestoreBackup(b) \/ SkipReplacement(b)
    \/ EndRollBack(b) \/ RemoveStaging(b)

PANext == \E b \in Builds : Step(b) \/ Crash(b)

PASpec == PAInit /\ [][PANext]_paVars

-----------------------------------------------------------------------------
(* Properties.  What a transaction promises about the whole directory is   *)
(* stated of builds that ran alone; `alone` and `latest` guard no action.   *)
Undisturbed == {b \in latest : alone[b]}

(* The variables have the values the code gives them; in particular a      *)
(* staging directory that does not exist holds nothing.                    *)
PATypeOK ==
    /\ directory \in [Entries -> Contents]
    /\ reserved \subseteq Nonces
    /\ \A d \in Nonces, i \in Positions :
        /\ new[d][i] \in Contents \ {Subdirectory}
        /\ old[d][i] \in Contents \ {Subdirectory}
        /\ d \notin reserved => new[d][i] = Absent /\ old[d][i] = Absent
    /\ \A b \in Builds :
        /\ pc[b] \in Ended \union {"idle", "lower", "reserve", "probe", "stage",
                                   "inspect", "replace", "rollback", "cleanup"}
        /\ nonce[b] \in Nonces
        /\ index[b] \in 0 .. Len(files[b]) \union {1}
        /\ outcome[b] \in {"none", "failed", "incomplete", "committed"}
        /\ incomplete[b] \in BOOLEAN

(* A build that reports an error without a recovery directory has left     *)
(* every entry of the output directory as it found it, whichever call      *)
(* failed (CommitArtifactFiles, RollBack).                                 *)
FailureRestores ==
    \A b \in Undisturbed :
        outcome[b] = "failed" /\ pc[b] \in {"cleanup", "returned", "residue"}
            => directory = before[b]

(* A build that reports success has put every file of its batch, whole,    *)
(* under its own name, and has changed no other entry.                     *)
CommittedWhole ==
    \A b \in Undisturbed : outcome[b] = "committed" =>
        /\ \A i \in Batch(b) : directory[Destination(b, i)] = Written(b, i)
        /\ \A e \in Entries \ {Destination(b, i) : i \in Batch(b)} :
               directory[e] = before[b][e]

(* Until a build has committed its whole batch, what an entry held before  *)
(* is in that entry or in the build's backup of it: at every point where   *)
(* the process may be killed, and after a rollback that was incomplete.    *)
OriginalsRecoverable ==
    \A b \in Undisturbed : outcome[b] # "committed" =>
        \A e \in Entries :
            \/ before[b][e] \in {directory[e], Absent}
            \/ \E i \in Batch(b) : Destination(b, i) = e
                                   /\ old[nonce[b]][i] = before[b][e]

(* A backup outlives everything but its own build's return: no other       *)
(* build, later or at the same time, removes or reuses a staging           *)
(* directory that a running, a killed or an unrecovered build left.        *)
BackupsKept ==
    \A b \in Builds : Active(b) \/ pc[b] = "crashed" \/ outcome[b] = "incomplete" =>
        \A i \in Batch(b) :
            /\ replacement[b][i].backed_up /\ outcome[b] # "committed"
                 => nonce[b] \in reserved /\ old[nonce[b]][i] # Absent
            /\ pc[b] = "replace" /\ i >= index[b] /\ ~replacement[b][i].installed
                 => new[nonce[b]][i] = Written(b, i)

(* Staging directories do not pile up: each one left behind belongs to a   *)
(* build that was killed, that kept it for recovery, or that could not     *)
(* remove it.                                                              *)
StagingReleased ==
    \A d \in reserved \ found : \E b \in Builds :
        /\ nonce[b] = d
        /\ \/ Active(b) /\ pc[b] \notin {"lower", "reserve"}
           \/ pc[b] \in {"crashed", "residue"}
           \/ outcome[b] = "incomplete"

(* What RollBack finds in a destination it is about to remove, if anything *)
(* is there, is the file its own build installed: "rollback never erases   *)
(* unrelated project output".                                              *)
RollbackErasesOwnOutput ==
    \A b \in Builds : pc[b] = "rollback" =>
        \A i \in 1 .. index[b] :
            replacement[b][i].installed
                => directory[Destination(b, i)] \in {Absent, Written(b, i)}
=============================================================================
