---------------------------- MODULE OutputProofs ----------------------------
(***************************************************************************)
(* What compilations leave on the disk.                                    *)
(*                                                                         *)
(* Of CompileCommand, for any number of commands and requests and whatever *)
(* the pipeline does: what a command that has the files to itself leaves.  *)
(* Of ProjectArtifacts, for any number of builds at once, any batches of   *)
(* names and any way a volume takes two names for one entry.               *)
(***************************************************************************)
EXTENDS ProjectArtifacts, CompileCommand, TLAPS, SequenceTheorems

-----------------------------------------------------------------------------
(* Compile commands: the inductive invariant.                              *)

CommandPlaces == {"idle", "returned", "residue", "killed", "consume", "open", "write",
                  "open temporary", "write temporary", "validate", "remove", "link", "measure", "cleanup"}

\* Which commands and files there are.
CommandTypes ==
    /\ place \in [Commands -> CommandPlaces]
    /\ disk = [k \in Kinds |-> disk[k]]
    /\ temporary = [b \in Commands |-> temporary[b]]
    /\ request = [b \in Commands |-> request[b]]
    /\ bytes = [b \in Commands |-> bytes[b]]
    /\ status = [b \in Commands |-> status[b]]

\* Commands start in order, and have no temporary object before.
StartedInOrder ==
    \A b \in Commands : place[b] = "idle" =>
        temporary[b] = NoFile /\ \A c \in b + 1..Invocations : place[c] = "idle"

\* A command that is running was accepted, and one with an object for its input links.
WhatItDoes(b) ==
    /\ Running(b) => request[b] \in Requests /\ ~ UsageError(request[b])
    /\ place[b] \in {"consume", "open", "write", "open temporary", "write temporary"} =>
         request[b].input # "object"
    /\ place[b] \in {"open", "write"} => request[b].output # "executable"
    /\ place[b] \in {"open temporary", "write temporary", "validate", "remove", "link", "measure",
                     "cleanup", "residue"} => request[b].output = "executable"

\* Until it opens its output or removes the executable, it has changed nothing.
WhatIsChanged(b) ==
    /\ \A k \in Kinds \ {request[b].output} : disk[k] = previous[k]
    /\ place[b] \in {"consume", "open", "open temporary", "write temporary", "validate", "remove"} =>
         disk = previous
    /\ Returned(b) /\ status[b] \in {"usage error", "rejected"} => disk = previous

\* The temporary object is the one it will link, and only a link has one.
WhatIsLinked(b) ==
    /\ place[b] \in {"consume", "open", "write", "returned"} => temporary[b] = NoFile
    /\ place[b] \in {"validate", "remove", "link", "measure"} /\ request[b].input # "object" =>
         temporary[b] = File(bytes[b])
    /\ place[b] = "link" => disk["executable"] = NoFile
    /\ place[b] = "measure" =>
         Whole(ObjectFile(b).data) /\ disk["executable"] = File(ObjectFile(b).data)

\* The executable when the link is over.
Linked(b) ==
    CASE status[b] = "done" ->
           disk["executable"] = File(IF request[b].input = "object" THEN disk["object"].data
                                     ELSE bytes[b])
      [] status[b] = "unlinked" -> ~ Whole(disk["executable"].data)
      [] OTHER -> disk["executable"] = previous["executable"]
HowItEnds(b) ==
    /\ place[b] = "cleanup" => status[b] \notin {"usage error", "rejected"}
    /\ (place[b] = "cleanup" \/ Returned(b)) /\ request[b].output = "executable" => Linked(b)

CommandAt(b) == WhatItDoes(b) /\ WhatIsChanged(b) /\ WhatIsLinked(b) /\ HowItEnds(b)

\* The latest command, when it has the files to itself.
CommandInv ==
    /\ CommandTypes
    /\ StartedInOrder
    /\ \A b \in Unhindered : CommandAt(b) /\ \A c \in Commands \ {b} : ~ Running(c)

-----------------------------------------------------------------------------
\* A step of a running command is a step of the only one there is, when the latest is alone.
LEMMA OneMoves ==
    ASSUME CommandInv, NEW b \in Commands, Running(b), NEW s \in CommandPlaces \ {"idle"},
           Proceed(b, s), UNCHANGED <<previous, solitary>>, CommandTypes',
           \A c \in Commands \ {b} : temporary'[c] = temporary[c],
           b \in Unhindered => CommandAt(b)'
    PROVE  CommandInv'
<1>1. place \in [Commands -> CommandPlaces] /\ Commands = 1..Invocations /\ Invocations \in Nat
  BY CompileConstants DEF CommandInv, CommandTypes, Commands
<1>2. place' = [place EXCEPT ![b] = s] /\ place[b] # "idle" /\ place'[b] = s
  BY <1>1 DEF Proceed, Running
<1>3. \A c \in Commands : place'[c] = "idle" <=> place[c] = "idle"
  BY <1>1, <1>2
<1>4. Unhindered' = Unhindered
  <2>1. \A c \in Commands : Latest(c)' <=> Latest(c)
    BY <1>1, <1>3 DEF Latest
  <2> QED BY <2>1 DEF Unhindered
<1>5. StartedInOrder'
  <2>1. SUFFICES ASSUME NEW c \in Commands, place'[c] = "idle"
                 PROVE  temporary'[c] = NoFile /\ \A d \in c + 1..Invocations : place'[d] = "idle"
    BY DEF StartedInOrder
  <2>2. place[c] = "idle" /\ c # b
    BY <1>2, <1>3, <2>1
  <2>3. temporary[c] = NoFile /\ \A d \in c + 1..Invocations : place[d] = "idle"
    BY <2>2 DEF CommandInv, StartedInOrder
  <2> QED BY <1>1, <1>3, <2>2, <2>3
<1>6. ASSUME NEW c \in Unhindered
      PROVE  CommandAt(c)' /\ \A d \in Commands \ {c} : ~ Running(d)'
  <2>1. c \in Commands /\ \A d \in Commands \ {c} : ~ Running(d)
    BY <1>6 DEF CommandInv, Unhindered
  <2>2. c = b
    BY <2>1
  <2>3. \A d \in Commands \ {b} : place'[d] = place[d]
    BY <1>1, <1>2
  <2> QED BY <1>6, <2>1, <2>2, <2>3 DEF Running
<1> QED BY <1>4, <1>5, <1>6 DEF CommandInv

\* Compile: the new command is the latest, and the files are now what they were before it.
LEMMA CompileKeeps ==
    ASSUME CommandInv, NEW b \in Commands, Compile(b)
    PROVE  CommandInv'
<1>1. PICK q \in Requests :
        /\ request' = [c \in Commands |-> IF c = b THEN q ELSE IF Running(c) THEN request[c] ELSE None]
        /\ Proceed(b, IF UsageError(q) THEN "returned"
                      ELSE IF q.input = "object" THEN "validate" ELSE "consume")
        /\ status' = [c \in Commands |-> IF c = b /\ UsageError(q) THEN "usage error"
                                         ELSE IF Running(c) THEN status[c] ELSE "none"]
  BY DEF Compile
<1> DEFINE s == IF UsageError(q) THEN "returned" ELSE IF q.input = "object" THEN "validate" ELSE "consume"
<1>2. /\ place[b] = "idle" /\ \A c \in 1..b - 1 : place[c] # "idle"
      /\ previous' = disk /\ solitary' = \A c \in Commands : ~ Running(c)
      /\ bytes' = [c \in Commands |-> IF Running(c) THEN bytes[c] ELSE <<>>]
      /\ UNCHANGED <<disk, temporary>>
  BY DEF Compile
<1>3. /\ place \in [Commands -> CommandPlaces] /\ place' = [place EXCEPT ![b] = s]
      /\ s \in CommandPlaces \ {"idle"} /\ Commands = 1..Invocations /\ Invocations \in Nat
  BY <1>1, CompileConstants DEF CommandInv, CommandTypes, Commands, Proceed, CommandPlaces
<1> HIDE DEF s
<1>4. /\ CommandTypes'
      /\ request'[b] = q /\ (UsageError(q) => status'[b] = "usage error")
      /\ temporary[b] = NoFile /\ place'[b] = s
  BY <1>1, <1>2, <1>3 DEF CommandInv, CommandTypes, StartedInOrder
<1>5. StartedInOrder'
  <2>1. SUFFICES ASSUME NEW c \in Commands, place'[c] = "idle"
                 PROVE  temporary'[c] = NoFile /\ \A d \in c + 1..Invocations : place'[d] = "idle"
    BY DEF StartedInOrder
  <2>2. c # b /\ place[c] = "idle"
    BY <1>3, <2>1
  <2>3. b < c
    BY <1>2, <1>3, <2>2
  <2> QED BY <1>2, <1>3, <2>2, <2>3 DEF CommandInv, StartedInOrder
<1>6. ASSUME NEW c \in Commands, Latest(c)' PROVE c = b
  <2>1. SUFFICES ASSUME c # b PROVE FALSE
    OBVIOUS
  <2>2. place[c] # "idle" /\ \A d \in c + 1..Invocations : place'[d] = "idle"
    BY <1>3, <1>6, <2>1 DEF Latest
  <2>3. c > b
    <3>1. b \in 1..Invocations /\ c \in 1..Invocations /\ place'[b] # "idle"
      BY <1>3, <1>4
    <3> QED BY <1>3, <2>1, <2>2, <3>1
  <2>4. place[c] = "idle"
    BY <1>2, <1>3, <2>3 DEF CommandInv, StartedInOrder
  <2> QED BY <2>2, <2>4
<1>7. ASSUME NEW c \in Unhindered'
      PROVE  CommandAt(c)' /\ \A d \in Commands \ {c} : ~ Running(d)'
  <2>1. c = b /\ \A d \in Commands : ~ Running(d)
    BY <1>2, <1>6, <1>7 DEF Unhindered
  <2>2. \A d \in Commands \ {b} : ~ Running(d)'
    BY <1>3, <2>1 DEF Running
  <2>3. UsageError(q) => place'[b] = "returned"
    BY <1>4 DEF s
  <2>4. ~ UsageError(q) /\ q.input = "object" => place'[b] = "validate" /\ q.output = "executable"
    <3>1. ASSUME q.input = "object", q.output # "metadata", q.output # "executable"
          PROVE  UsageError(q)
      BY <3>1, CompileConstants DEF UsageError, OutputStage, InputStage
    <3> QED BY <1>4, <3>1 DEF s, UsageError
  <2>5. ~ UsageError(q) /\ q.input # "object" => place'[b] = "consume"
    BY <1>4 DEF s
  <2>6. WhatItDoes(b)'
    BY <1>4, <2>3, <2>4, <2>5 DEF WhatItDoes, Running, UsageError, InputStage, OutputStage
  <2>7. WhatIsChanged(b)'
    BY <1>2, <1>4, <2>3, <2>4, <2>5 DEF WhatIsChanged
  <2>8. WhatIsLinked(b)'
    BY <1>2, <1>4, <2>3, <2>4, <2>5 DEF WhatIsLinked
  <2>9. HowItEnds(b)'
    BY <1>2, <1>4, <2>3, <2>4, <2>5 DEF HowItEnds, Linked, Returned
  <2> QED BY <2>1, <2>2, <2>6, <2>7, <2>8, <2>9 DEF CommandAt
<1> QED BY <1>4, <1>5, <1>7 DEF CommandInv

\* A command that says no before there is an output or a temporary object.
LEMMA RejectedKeeps ==
    ASSUME CommandInv, NEW b \in Commands, place[b] = "consume", GiveUp(b, "rejected"),
           bytes' = [c \in Commands |-> bytes'[c]],
           UNCHANGED <<disk, temporary, request, previous, solitary>>
    PROVE  CommandInv'
<1>1. Proceed(b, "returned") /\ status' = [status EXCEPT ![b] = "rejected"]
  BY DEF GiveUp, Ends
<1>2. /\ CommandTypes' /\ place'[b] = "returned" /\ status'[b] = "rejected"
      /\ "returned" \in CommandPlaces \ {"idle"} /\ Running(b)
  BY <1>1 DEF CommandInv, CommandTypes, Proceed, CommandPlaces, Running
<1>3. b \in Unhindered => CommandAt(b)'
  <2>1. SUFFICES ASSUME CommandAt(b) PROVE CommandAt(b)'
    BY DEF CommandInv
  <2>2. WhatItDoes(b)'
    BY <1>2 DEF WhatItDoes, Running
  <2>3. WhatIsChanged(b)' /\ WhatIsLinked(b)'
    BY <1>2, <2>1 DEF CommandAt, WhatIsChanged, WhatIsLinked
  <2>4. HowItEnds(b)'
    BY <1>2, <2>1 DEF CommandAt, WhatIsChanged, HowItEnds, Linked
  <2> QED BY <2>2, <2>3, <2>4 DEF CommandAt
<1> QED BY <1>1, <1>2, <1>3, OneMoves

\* The pipeline gave a module: it is going to be written, or it cannot be encoded.
LEMMA ConsumedKeeps ==
    ASSUME CommandInv, NEW b \in Commands, place[b] = "consume", request[b].input # "object",
           NEW result, Consumed(b, request[b], result),
           UNCHANGED <<temporary, request, previous, solitary>>
    PROVE  CommandInv'
<1> DEFINE written == BytesOf(request[b], result.module)
           s == IF request[b].output = "executable" THEN "open temporary" ELSE "open"
<1>1. bytes' = [bytes EXCEPT ![b] = written] /\ UNCHANGED disk
  BY DEF Consumed, Prepared
<1>2. CASE bytes'[b] = NoBytes
  <2>1. GiveUp(b, "rejected")
    BY <1>2 DEF Consumed, Prepared
  <2>2. bytes' = [c \in Commands |-> bytes'[c]]
    BY <1>1 DEF CommandInv, CommandTypes
  <2> QED BY <1>1, <2>1, <2>2, RejectedKeeps
<1>3. CASE bytes'[b] # NoBytes
  <2>1. Proceed(b, s) /\ UNCHANGED status
    BY <1>3 DEF Consumed, Prepared
  <2>2. /\ CommandTypes' /\ place'[b] = s /\ s \in CommandPlaces \ {"idle"} /\ Running(b)
    BY <1>1, <2>1 DEF CommandInv, CommandTypes, Proceed, CommandPlaces, Running
  <2>3. b \in Unhindered => CommandAt(b)'
    <3>1. SUFFICES ASSUME CommandAt(b) PROVE CommandAt(b)'
      BY DEF CommandInv
    <3>2. WhatItDoes(b)'
      BY <2>2, <3>1 DEF CommandAt, WhatItDoes, Running
    <3>3. WhatIsChanged(b)' /\ WhatIsLinked(b)'
      BY <1>1, <2>1, <2>2, <3>1 DEF CommandAt, WhatIsChanged, WhatIsLinked, Returned
    <3>4. HowItEnds(b)'
      BY <2>2 DEF HowItEnds, Returned
    <3> QED BY <3>2, <3>3, <3>4 DEF CommandAt
  <2> HIDE DEF s
  <2> QED BY <2>1, <2>2, <2>3, OneMoves
<1> QED BY <1>2, <1>3

\* The output is opened and empty, or it cannot be and the command returns.
LEMMA OpenOutputKeeps ==
    ASSUME CommandInv, NEW b \in Commands, OpenOutput(b)
    PROVE  CommandInv'
<1>1. place[b] = "open" /\ UNCHANGED <<temporary, request, bytes, previous, solitary>>
  BY DEF OpenOutput, Kept
<1>2. CASE GiveUp(b, "unwritten") /\ UNCHANGED disk
  <2>1. Proceed(b, "returned") /\ status' = [status EXCEPT ![b] = "unwritten"]
    BY <1>2 DEF GiveUp, Ends
  <2>2. /\ CommandTypes' /\ place'[b] = "returned" /\ status'[b] = "unwritten"
        /\ "returned" \in CommandPlaces \ {"idle"} /\ Running(b)
    BY <1>1, <1>2, <2>1 DEF CommandInv, CommandTypes, Proceed, CommandPlaces, Running
  <2>3. b \in Unhindered => CommandAt(b)'
    <3>1. SUFFICES ASSUME CommandAt(b) PROVE CommandAt(b)'
      BY DEF CommandInv
    <3>2. WhatItDoes(b)' /\ request[b].output # "executable"
      BY <1>1, <2>2, <3>1 DEF CommandAt, WhatItDoes, Running
    <3>3. WhatIsChanged(b)' /\ WhatIsLinked(b)'
      BY <1>1, <1>2, <2>2, <3>1 DEF CommandAt, WhatIsChanged, WhatIsLinked
    <3>4. HowItEnds(b)'
      BY <1>1, <2>2, <3>2 DEF HowItEnds
    <3> QED BY <3>2, <3>3, <3>4 DEF CommandAt
  <2> QED BY <1>1, <2>1, <2>2, <2>3, OneMoves
<1>3. CASE /\ disk' = [disk EXCEPT ![request[b].output] = File(<<>>)]
           /\ Proceed(b, "write") /\ UNCHANGED status
  <2>1. /\ CommandTypes' /\ place'[b] = "write"
        /\ "write" \in CommandPlaces \ {"idle"} /\ Running(b)
    BY <1>1, <1>3 DEF CommandInv, CommandTypes, Proceed, CommandPlaces, Running
  <2>2. b \in Unhindered => CommandAt(b)'
    <3>1. SUFFICES ASSUME CommandAt(b) PROVE CommandAt(b)'
      BY DEF CommandInv
    <3>2. WhatItDoes(b)'
      BY <1>1, <2>1, <3>1 DEF CommandAt, WhatItDoes, Running
    <3>3. \A k \in Kinds \ {request[b].output} : disk'[k] = previous[k]
      BY <1>3, <3>1 DEF CommandAt, WhatIsChanged, CommandInv, CommandTypes
    <3>4. WhatIsChanged(b)'
      BY <1>1, <2>1, <3>3 DEF WhatIsChanged, Returned
    <3>5. WhatIsLinked(b)' /\ HowItEnds(b)'
      BY <1>1, <2>1, <3>1 DEF CommandAt, WhatIsLinked, HowItEnds, Returned
    <3> QED BY <3>2, <3>4, <3>5 DEF CommandAt
  <2> QED BY <1>1, <1>3, <2>1, <2>2, OneMoves
<1> QED BY <1>2, <1>3 DEF OpenOutput

\* The output is written, or cut short; either way the command returns.
LEMMA WriteOutputKeeps ==
    ASSUME CommandInv, NEW b \in Commands, WriteOutput(b)
    PROVE  CommandInv'
<1>1. place[b] = "write" /\ UNCHANGED <<temporary, request, bytes, previous, solitary>>
  BY DEF WriteOutput, Kept
<1>2. PICK file, how : /\ disk' = [disk EXCEPT ![request[b].output] = file]
                       /\ GiveUp(b, how) /\ how \in {"done", "unwritten"}
  BY DEF WriteOutput
<1>3. Proceed(b, "returned") /\ status' = [status EXCEPT ![b] = how]
  BY <1>2 DEF GiveUp, Ends
<1>4. /\ CommandTypes' /\ place'[b] = "returned" /\ status'[b] = how
      /\ "returned" \in CommandPlaces \ {"idle"} /\ Running(b)
  BY <1>1, <1>2, <1>3 DEF CommandInv, CommandTypes, Proceed, CommandPlaces, Running
<1>5. b \in Unhindered => CommandAt(b)'
  <2>1. SUFFICES ASSUME CommandAt(b) PROVE CommandAt(b)'
    BY DEF CommandInv
  <2>2. WhatItDoes(b)' /\ request[b].output # "executable"
    BY <1>1, <1>4, <2>1 DEF CommandAt, WhatItDoes, Running
  <2>3. \A k \in Kinds \ {request[b].output} : disk'[k] = previous[k]
    BY <1>2, <2>1 DEF CommandAt, WhatIsChanged, CommandInv, CommandTypes
  <2>4. WhatIsChanged(b)'
    BY <1>1, <1>2, <1>4, <2>3 DEF WhatIsChanged, Returned
  <2>5. WhatIsLinked(b)' /\ HowItEnds(b)'
    BY <1>1, <1>4, <2>1, <2>2 DEF CommandAt, WhatIsLinked, HowItEnds
  <2> QED BY <2>2, <2>4, <2>5 DEF CommandAt
<1> QED BY <1>1, <1>3, <1>4, <1>5, OneMoves

\* Up to here no file beside Demo.tala has changed; only the temporary object has.
LEMMA TemporaryKeeps ==
    ASSUME CommandInv, NEW b \in Commands, OpenTemporary(b) \/ WriteTemporary(b)
    PROVE  CommandInv'
<1>1. /\ place[b] \in {"open temporary", "write temporary"} /\ Running(b)
      /\ UNCHANGED <<disk, request, bytes, previous, solitary>>
  BY DEF OpenTemporary, WriteTemporary, Kept, Running
<1>2. /\ temporary' = [c \in Commands |-> temporary'[c]]
      /\ \A c \in Commands \ {b} : temporary'[c] = temporary[c]
  BY DEF OpenTemporary, WriteTemporary, CommandInv, CommandTypes
<1>3. CASE Proceed(b, "cleanup") /\ status' = [status EXCEPT ![b] = "unwritten"]
  <2>1. /\ CommandTypes' /\ place'[b] = "cleanup" /\ status'[b] = "unwritten"
        /\ "cleanup" \in CommandPlaces \ {"idle"}
    BY <1>1, <1>2, <1>3 DEF CommandInv, CommandTypes, Proceed, CommandPlaces
  <2>2. b \in Unhindered => CommandAt(b)'
    <3>1. SUFFICES ASSUME CommandAt(b) PROVE CommandAt(b)'
      BY DEF CommandInv
    <3>2. WhatItDoes(b)' /\ disk = previous
      BY <1>1, <2>1, <3>1 DEF CommandAt, WhatItDoes, WhatIsChanged, Running
    <3>3. WhatIsChanged(b)' /\ WhatIsLinked(b)'
      BY <1>1, <2>1, <3>1 DEF CommandAt, WhatIsChanged, WhatIsLinked, Returned
    <3>4. HowItEnds(b)'
      BY <1>1, <2>1, <3>2 DEF HowItEnds, Linked
    <3> QED BY <3>2, <3>3, <3>4 DEF CommandAt
  <2> QED BY <1>1, <1>2, <1>3, <2>1, <2>2, OneMoves
<1>4. ASSUME NEW s \in {"write temporary", "validate"}, Proceed(b, s), UNCHANGED status,
             s = "validate" => temporary'[b] = File(bytes[b])
      PROVE  CommandInv'
  <2>1. CommandTypes' /\ place'[b] = s /\ s \in CommandPlaces \ {"idle"}
    BY <1>1, <1>2, <1>4 DEF CommandInv, CommandTypes, Proceed, CommandPlaces
  <2>2. b \in Unhindered => CommandAt(b)'
    <3>1. SUFFICES ASSUME CommandAt(b) PROVE CommandAt(b)'
      BY DEF CommandInv
    <3>2. WhatItDoes(b)' /\ disk = previous
      BY <1>1, <2>1, <3>1 DEF CommandAt, WhatItDoes, WhatIsChanged, Running
    <3>3. WhatIsChanged(b)'
      BY <1>1, <1>4, <2>1, <3>2 DEF WhatIsChanged, Returned
    <3>4. WhatIsLinked(b)' /\ HowItEnds(b)'
      BY <1>1, <1>4, <2>1 DEF WhatIsLinked, HowItEnds, Returned
    <3> QED BY <3>2, <3>3, <3>4 DEF CommandAt
  <2> QED BY <1>1, <1>2, <1>4, <2>1, <2>2, OneMoves
<1>5. CASE OpenTemporary(b)
  BY <1>3, <1>4, <1>5 DEF OpenTemporary, Ends
<1>6. CASE WriteTemporary(b)
  <2>1. CASE /\ temporary' = [temporary EXCEPT ![b] = File(bytes[b])]
             /\ Proceed(b, "validate") /\ UNCHANGED status
    <3>1. temporary'[b] = File(bytes[b])
      BY <2>1 DEF CommandInv, CommandTypes
    <3> QED BY <1>4, <2>1, <3>1
  <2> QED BY <1>3, <1>6, <2>1 DEF WriteTemporary, Ends
<1> QED BY <1>5, <1>6

\* The link is refused with the last executable in its place, or goes on without it.
LEMMA ValidateKeeps ==
    ASSUME CommandInv, NEW b \in Commands, ValidateRequest(b) \/ RemoveExecutable(b)
    PROVE  CommandInv'
<1>1. /\ place[b] \in {"validate", "remove"} /\ Running(b)
      /\ UNCHANGED <<temporary, request, bytes, previous, solitary>>
  BY DEF ValidateRequest, RemoveExecutable, Kept, Running
<1>2. CASE Refused(b) /\ UNCHANGED disk
  <2>1. Proceed(b, "cleanup") /\ status' = [status EXCEPT ![b] = "refused"]
    BY <1>2 DEF Refused, Ends
  <2>2. /\ CommandTypes' /\ place'[b] = "cleanup" /\ status'[b] = "refused"
        /\ "cleanup" \in CommandPlaces \ {"idle"}
    BY <1>1, <1>2, <2>1 DEF CommandInv, CommandTypes, Proceed, CommandPlaces
  <2>3. b \in Unhindered => CommandAt(b)'
    <3>1. SUFFICES ASSUME CommandAt(b) PROVE CommandAt(b)'
      BY DEF CommandInv
    <3>2. WhatItDoes(b)' /\ disk = previous
      BY <1>1, <2>2, <3>1 DEF CommandAt, WhatItDoes, WhatIsChanged, Running
    <3>3. WhatIsChanged(b)' /\ WhatIsLinked(b)'
      BY <1>1, <1>2, <2>2, <3>1 DEF CommandAt, WhatIsChanged, WhatIsLinked, Returned
    <3>4. HowItEnds(b)'
      BY <1>1, <1>2, <2>2, <3>2 DEF HowItEnds, Linked
    <3> QED BY <3>2, <3>3, <3>4 DEF CommandAt
  <2> QED BY <1>1, <2>1, <2>2, <2>3, OneMoves
<1>3. CASE place[b] = "validate" /\ Proceed(b, "remove") /\ UNCHANGED <<disk, status>>
  <2>1. /\ CommandTypes' /\ place'[b] = "remove" /\ "remove" \in CommandPlaces \ {"idle"}
    BY <1>1, <1>3 DEF CommandInv, CommandTypes, Proceed, CommandPlaces
  <2>2. b \in Unhindered => CommandAt(b)'
    <3>1. SUFFICES ASSUME CommandAt(b) PROVE CommandAt(b)'
      BY DEF CommandInv
    <3>2. WhatItDoes(b)' /\ WhatIsChanged(b)'
      BY <1>1, <1>3, <2>1, <3>1 DEF CommandAt, WhatItDoes, WhatIsChanged, Running, Returned
    <3>3. WhatIsLinked(b)' /\ HowItEnds(b)'
      BY <1>1, <1>3, <2>1, <3>1 DEF CommandAt, WhatIsLinked, HowItEnds, Returned
    <3> QED BY <3>2, <3>3 DEF CommandAt
  <2> QED BY <1>1, <1>3, <2>1, <2>2, OneMoves
<1>4. CASE /\ place[b] = "remove" /\ disk' = [disk EXCEPT !["executable"] = NoFile]
           /\ Proceed(b, "link") /\ UNCHANGED status
  <2>1. /\ CommandTypes' /\ place'[b] = "link" /\ "link" \in CommandPlaces \ {"idle"}
        /\ disk'["executable"] = NoFile /\ \A k \in Kinds \ {"executable"} : disk'[k] = disk[k]
    BY <1>1, <1>4 DEF CommandInv, CommandTypes, Proceed, CommandPlaces, Kinds
  <2>2. b \in Unhindered => CommandAt(b)'
    <3>1. SUFFICES ASSUME CommandAt(b) PROVE CommandAt(b)'
      BY DEF CommandInv
    <3>2. WhatItDoes(b)' /\ request[b].output = "executable"
      BY <1>1, <1>4, <2>1, <3>1 DEF CommandAt, WhatItDoes, Running
    <3>3. WhatIsChanged(b)'
      BY <1>1, <2>1, <3>1, <3>2 DEF CommandAt, WhatIsChanged, Returned
    <3>4. WhatIsLinked(b)' /\ HowItEnds(b)'
      BY <1>1, <1>4, <2>1, <3>1 DEF CommandAt, WhatIsLinked, HowItEnds, Returned
    <3> QED BY <3>2, <3>3, <3>4 DEF CommandAt
  <2> QED BY <1>1, <1>4, <2>1, <2>2, OneMoves
<1> QED BY <1>2, <1>3, <1>4 DEF ValidateRequest, RemoveExecutable

\* What the linker leaves when it fails is not a whole executable.
LEMMA RunLinkerKeeps ==
    ASSUME CommandInv, NEW b \in Commands, RunLinker(b)
    PROVE  CommandInv'
<1>1. /\ place[b] = "link" /\ Running(b)
      /\ UNCHANGED <<temporary, request, bytes, previous, solitary>>
  BY DEF RunLinker, Kept, Running
<1>2. CASE /\ Unlinked(b)
           /\ \/ UNCHANGED disk
              \/ \E data \in {<<>>, <<"part">>} : disk' = [disk EXCEPT !["executable"] = File(data)]
  <2>1. Proceed(b, "cleanup") /\ status' = [status EXCEPT ![b] = "unlinked"]
    BY <1>2 DEF Unlinked, Ends
  <2>2. /\ CommandTypes' /\ place'[b] = "cleanup" /\ status'[b] = "unlinked"
        /\ "cleanup" \in CommandPlaces \ {"idle"}
        /\ \A k \in Kinds \ {"executable"} : disk'[k] = disk[k]
    BY <1>1, <1>2, <2>1 DEF CommandInv, CommandTypes, Proceed, CommandPlaces, Kinds
  <2>3. b \in Unhindered => CommandAt(b)'
    <3>1. SUFFICES ASSUME CommandAt(b) PROVE CommandAt(b)'
      BY DEF CommandInv
    <3>2. WhatItDoes(b)' /\ request[b].output = "executable"
      BY <1>1, <2>2, <3>1 DEF CommandAt, WhatItDoes, Running
    <3>3. WhatIsChanged(b)' /\ WhatIsLinked(b)'
      BY <1>1, <2>2, <3>1, <3>2 DEF CommandAt, WhatIsChanged, WhatIsLinked, Returned
    <3>4. ~ Whole(disk'["executable"].data)
      <4>1. CASE UNCHANGED disk
        <5>1. disk'["executable"].data = <<>>
          BY <1>1, <3>1, <4>1 DEF CommandAt, WhatIsLinked, NoFile
        <5> QED BY <5>1 DEF Whole
      <4>2. ASSUME NEW data \in {<<>>, <<"part">>}, disk' = [disk EXCEPT !["executable"] = File(data)]
            PROVE  ~ Whole(disk'["executable"].data)
        <5>1. disk'["executable"].data = data
          BY <4>2 DEF CommandInv, CommandTypes, Kinds, File
        <5> QED BY <4>2, <5>1 DEF Whole
      <4> QED BY <1>2, <4>1, <4>2
    <3>5. HowItEnds(b)'
      BY <2>2, <3>4 DEF HowItEnds, Linked
    <3> QED BY <3>2, <3>3, <3>5 DEF CommandAt
  <2> QED BY <1>1, <2>1, <2>2, <2>3, OneMoves
<1>3. CASE /\ Whole(ObjectFile(b).data)
           /\ disk' = [disk EXCEPT !["executable"] = File(ObjectFile(b).data)]
           /\ Proceed(b, "measure") /\ UNCHANGED status
  <2>1. /\ CommandTypes' /\ place'[b] = "measure" /\ "measure" \in CommandPlaces \ {"idle"}
        /\ disk'["executable"] = File(ObjectFile(b).data)
        /\ \A k \in Kinds \ {"executable"} : disk'[k] = disk[k]
    BY <1>1, <1>3 DEF CommandInv, CommandTypes, Proceed, CommandPlaces, Kinds
  <2>2. ObjectFile(b)' = ObjectFile(b)
    BY <1>1, <2>1 DEF ObjectFile, Kinds
  <2>3. b \in Unhindered => CommandAt(b)'
    <3>1. SUFFICES ASSUME CommandAt(b) PROVE CommandAt(b)'
      BY DEF CommandInv
    <3>2. WhatItDoes(b)' /\ request[b].output = "executable"
      BY <1>1, <2>1, <3>1 DEF CommandAt, WhatItDoes, Running
    <3>3. WhatIsChanged(b)'
      BY <1>1, <2>1, <3>1, <3>2 DEF CommandAt, WhatIsChanged, Returned
    <3>4. WhatIsLinked(b)'
      BY <1>1, <1>3, <2>1, <2>2, <3>1 DEF CommandAt, WhatIsLinked
    <3>5. HowItEnds(b)'
      BY <2>1 DEF HowItEnds, Returned
    <3> QED BY <3>2, <3>3, <3>4, <3>5 DEF CommandAt
  <2> QED BY <1>1, <1>3, <2>1, <2>3, OneMoves
<1> QED BY <1>2, <1>3 DEF RunLinker

\* A linker that says it succeeded left the program of the object it was given.
LEMMA MeasureKeeps ==
    ASSUME CommandInv, NEW b \in Commands, MeasureExecutable(b)
    PROVE  CommandInv'
<1>1. /\ place[b] = "measure" /\ Running(b)
      /\ UNCHANGED <<disk, temporary, request, bytes, previous, solitary>>
  BY DEF MeasureExecutable, Kept, Running
<1>2. PICK how \in {"done", "unlinked"} :
        /\ Proceed(b, "cleanup") /\ status' = [status EXCEPT ![b] = how]
        /\ how = "unlinked" => ~ (disk["executable"].there /\ disk["executable"].data # <<>>)
  BY DEF MeasureExecutable, Unlinked, Ends
<1>3. /\ CommandTypes' /\ place'[b] = "cleanup" /\ status'[b] = how
      /\ "cleanup" \in CommandPlaces \ {"idle"}
  BY <1>1, <1>2 DEF CommandInv, CommandTypes, Proceed, CommandPlaces
<1>4. b \in Unhindered => CommandAt(b)'
  <2>1. SUFFICES ASSUME CommandAt(b) PROVE CommandAt(b)'
    BY DEF CommandInv
  <2>2. WhatItDoes(b)'
    BY <1>1, <1>3, <2>1 DEF CommandAt, WhatItDoes, Running
  <2>3. WhatIsChanged(b)' /\ WhatIsLinked(b)'
    BY <1>1, <1>3, <2>1 DEF CommandAt, WhatIsChanged, WhatIsLinked, Returned
  <2>4. Whole(ObjectFile(b).data) /\ disk["executable"] = File(ObjectFile(b).data)
    BY <1>1, <2>1 DEF CommandAt, WhatIsLinked
  <2>5. how = "done"
    BY <1>2, <2>4 DEF Whole, File
  <2>6. ObjectFile(b).data = IF request[b].input = "object" THEN disk["object"].data ELSE bytes[b]
    BY <1>1, <2>1 DEF CommandAt, WhatIsLinked, ObjectFile, File
  <2>7. HowItEnds(b)'
    BY <1>1, <1>3, <2>4, <2>5, <2>6 DEF HowItEnds, Linked
  <2> QED BY <2>2, <2>3, <2>7 DEF CommandAt
<1> QED BY <1>1, <1>2, <1>3, <1>4, OneMoves

\* Its end: the temporary object is removed, or stays behind.
LEMMA RemoveTemporaryKeeps ==
    ASSUME CommandInv, NEW b \in Commands, RemoveTemporary(b)
    PROVE  CommandInv'
<1>1. /\ place[b] = "cleanup" /\ Running(b)
      /\ UNCHANGED <<disk, status, request, bytes, previous, solitary>>
  BY DEF RemoveTemporary, Kept, Running
<1>2. PICK s \in {"returned", "residue"} :
        /\ Proceed(b, s)
        /\ temporary' = [c \in Commands |-> temporary'[c]]
        /\ s = "returned" => temporary'[b] = NoFile
        /\ \A c \in Commands \ {b} : temporary'[c] = temporary[c]
  BY DEF RemoveTemporary, CommandInv, CommandTypes
<1>3. CommandTypes' /\ place'[b] = s /\ s \in CommandPlaces \ {"idle"}
  BY <1>1, <1>2 DEF CommandInv, CommandTypes, Proceed, CommandPlaces
<1>4. b \in Unhindered => CommandAt(b)'
  <2>1. SUFFICES ASSUME CommandAt(b) PROVE CommandAt(b)'
    BY DEF CommandInv
  <2>2. WhatItDoes(b)' /\ status[b] \notin {"usage error", "rejected"}
    BY <1>1, <1>3, <2>1 DEF CommandAt, WhatItDoes, HowItEnds, Running
  <2>3. WhatIsChanged(b)'
    BY <1>1, <1>3, <2>1, <2>2 DEF CommandAt, WhatIsChanged
  <2>4. WhatIsLinked(b)'
    BY <1>2, <1>3 DEF WhatIsLinked
  <2>5. HowItEnds(b)'
    BY <1>1, <1>3, <2>1 DEF CommandAt, HowItEnds, Linked
  <2> QED BY <2>2, <2>3, <2>4, <2>5 DEF CommandAt
<1> QED BY <1>1, <1>2, <1>3, <1>4, OneMoves

\* A killed command leaves its output as it is.
LEMMA KillKeeps ==
    ASSUME CommandInv, NEW b \in Commands, Kill(b)
    PROVE  CommandInv'
<1>1. /\ Running(b) /\ Proceed(b, "killed")
      /\ UNCHANGED <<disk, temporary, status, request, bytes, previous, solitary>>
  BY DEF Kill, Kept
<1>2. CommandTypes' /\ place'[b] = "killed" /\ "killed" \in CommandPlaces \ {"idle"}
  BY <1>1 DEF CommandInv, CommandTypes, Proceed, CommandPlaces
<1>3. b \in Unhindered => CommandAt(b)'
  BY <1>1, <1>2
     DEF CommandInv, CommandAt, WhatItDoes, WhatIsChanged, WhatIsLinked, HowItEnds, Running, Returned
<1> QED BY <1>1, <1>2, <1>3, OneMoves

-----------------------------------------------------------------------------
\* Where nothing is moved nothing is lost.
LEMMA CommandStutters ==
    ASSUME CommandInv, UNCHANGED vars
    PROVE  CommandInv'
<1>1. UNCHANGED <<disk, temporary, place, request, bytes, status, previous, solitary>>
  BY DEF vars
<1>2. CommandTypes' /\ StartedInOrder' /\ Unhindered' = Unhindered
  BY <1>1 DEF CommandInv, CommandTypes, StartedInOrder, Unhindered, Latest
<1>3. ASSUME NEW b \in Commands, CommandAt(b) PROVE CommandAt(b)'
  <2>1. WhatItDoes(b)' /\ WhatIsChanged(b)'
    BY <1>1, <1>3 DEF CommandAt, WhatItDoes, WhatIsChanged, Running, Returned
  <2>2. WhatIsLinked(b)' /\ HowItEnds(b)'
    BY <1>1, <1>3 DEF CommandAt, WhatIsLinked, HowItEnds, Linked, ObjectFile, Returned
  <2> QED BY <2>1, <2>2 DEF CommandAt
<1> QED BY <1>1, <1>2, <1>3 DEF CommandInv, Unhindered, Running

\* Every step of a command keeps the invariant.
LEMMA CommandInvariance == Spec => []CommandInv
<1>1. ASSUME Init PROVE CommandInv
  <2>1. CommandTypes /\ StartedInOrder
    BY <1>1 DEF Init, CommandTypes, StartedInOrder, CommandPlaces, Commands
  <2>2. Unhindered = {}
    BY <1>1 DEF Init, Unhindered, Latest
  <2> QED BY <2>1, <2>2 DEF CommandInv
<1>2. ASSUME CommandInv, [Next]_vars PROVE CommandInv'
  <2>1. CASE UNCHANGED vars
    BY <1>2, <2>1, CommandStutters
  <2>2. ASSUME NEW b \in Commands, CommandStep(b) PROVE CommandInv'
    <3>1. CASE ConsumeSource(b)
      <4>1. CASE Rejected(b)
        BY <1>2, <3>1, <4>1, RejectedKeeps DEF ConsumeSource, Rejected, CommandInv, CommandTypes
      <4>2. CASE Consumed(b, request[b], SourceResult(request[b]))
        BY <1>2, <3>1, <4>2, ConsumedKeeps DEF ConsumeSource
      <4> QED BY <3>1, <4>1, <4>2 DEF ConsumeSource
    <3>2. CASE ConsumeFile(b)
      <4>1. CASE Rejected(b)
        BY <1>2, <3>2, <4>1, RejectedKeeps DEF ConsumeFile, Rejected, CommandInv, CommandTypes
      <4>2. CASE Consumed(b, request[b], FileResult(disk[request[b].input].data, request[b]))
        BY <1>2, <3>2, <4>2, ConsumedKeeps DEF ConsumeFile
      <4> QED BY <3>2, <4>1, <4>2 DEF ConsumeFile
    <3> QED BY <1>2, <2>2, <3>1, <3>2, CompileKeeps, OpenOutputKeeps, WriteOutputKeeps, TemporaryKeeps,
               ValidateKeeps, RunLinkerKeeps, MeasureKeeps, RemoveTemporaryKeeps, KillKeeps
            DEF CommandStep
  <2> QED BY <1>2, <2>1, <2>2 DEF Next
<1> QED BY <1>1, <1>2, PTL DEF Spec

(* A link that was refused leaves the last executable, a link that failed  *)
(* leaves none that could be taken for this build's, and one that          *)
(* succeeded leaves the program this command compiled: whatever the        *)
(* pipeline does, for any number of commands and any requests.             *)
THEOREM ExecutableOfThisBuildHolds == Spec => []ExecutableOfThisBuild
<1>1. CommandInv => ExecutableOfThisBuild
  BY DEF CommandInv, CommandAt, HowItEnds, Linked, ExecutableOfThisBuild, Unhindered
<1> QED BY <1>1, CommandInvariance, PTL

(* A command changes no file but its output, and not that one unless its   *)
(* input was accepted; its temporary object is gone when it returns.       *)
THEOREM LeavesOnlyItsOutputHolds == Spec => []LeavesOnlyItsOutput
<1>1. CommandInv => LeavesOnlyItsOutput
  BY DEF CommandInv, CommandAt, WhatIsChanged, WhatIsLinked, Unhindered, LeavesOnlyItsOutput, Returned
<1> QED BY <1>1, CommandInvariance, PTL

-----------------------------------------------------------------------------
(* Output transactions: the inductive invariant, in parts.                 *)

USE PAConstants

Starting == {"idle", "lower", "reserve", "probe"}
Preparing == Starting \union {"stage", "inspect"}
Reserving == {"probe", "stage", "inspect", "replace", "rollback", "cleanup"}
Places == Ended \union Preparing \union Reserving

Replacements == [had_original : BOOLEAN, backed_up : BOOLEAN, installed : BOOLEAN]

Types ==
    /\ directory \in [Entries -> Contents]
    /\ reserved \subseteq Nonces
    /\ new \in [Nonces -> [Positions -> Contents \ {Subdirectory}]]
    /\ old \in [Nonces -> [Positions -> Contents \ {Subdirectory}]]
    /\ pc \in [Builds -> Places]
    /\ files \in [Builds -> Batches \union {<<>>}]
    /\ nonce \in [Builds -> Nonces]
    /\ index \in [Builds -> Nat]
    /\ replacement \in [Builds -> [Positions -> Replacements]]
    /\ incomplete \in [Builds -> BOOLEAN]
    /\ outcome \in [Builds -> {"none", "failed", "incomplete", "committed"}]
    /\ before \in [Builds -> [Entries -> Contents]]
    /\ latest \subseteq Builds
    /\ alone \in [Builds -> BOOLEAN]

\* A record whose file is as the build found it.
Settled(b, i) == ~replacement[b][i].installed /\ ~replacement[b][i].backed_up

(* What the place of a build says of its own records.                      *)
PlaceInv(b) ==
    /\ pc[b] \in Starting => index[b] = 1
    /\ pc[b] \in {"lower", "reserve"} \union Reserving => Batch(b) # {}
    /\ pc[b] \in {"stage", "inspect", "replace"} => index[b] \in Batch(b)
    /\ pc[b] = "rollback" => index[b] \in 0 .. Len(files[b])
    /\ index[b] \in 0 .. Len(files[b]) \union {1}
    /\ pc[b] \in Preparing \union {"replace"} => outcome[b] = "none"
    /\ pc[b] = "rollback" => outcome[b] = "failed"
    /\ pc[b] \in {"cleanup", "residue"} => outcome[b] \in {"failed", "committed"}
    /\ pc[b] = "returned" => outcome[b] # "none"
    /\ outcome[b] = "incomplete" => pc[b] = "returned"

(* No two files of a batch go to one entry, since either their names fold  *)
(* apart and are ASCII, or the volume keeps them apart.                    *)
NamesInv(b) ==
    /\ pc[b] \in {"lower", "reserve", "probe"}
         => \A i, j \in Batch(b) : Fold[files[b][i]] = Fold[files[b][j]] => i = j
    /\ pc[b] \in {"stage", "inspect", "replace", "rollback"}
         => \A i, j \in Batch(b) : Destination(b, i) = Destination(b, j) => i = j

(* Files are replaced in the order of the batch, and rolled back against it. *)
OrderInv(b) ==
    /\ pc[b] \in Preparing => \A i \in Positions : Settled(b, i)
    /\ pc[b] = "replace" => \A i \in Batch(b) :
          /\ i < index[b] => replacement[b][i].installed
          /\ i >= index[b] => ~replacement[b][i].installed
          /\ i > index[b] => ~replacement[b][i].backed_up
    /\ pc[b] = "rollback" /\ ~incomplete[b] => \A i \in Batch(b) : i > index[b] => Settled(b, i)
    /\ pc[b] \in {"cleanup", "returned", "residue"} /\ outcome[b] = "failed"
         => \A i \in Batch(b) : Settled(b, i)

(* The builds whose staging directory must not be taken from them: those   *)
(* that use it, and those that left a backup in it for recovery.           *)
Owner(b) ==
    \/ pc[b] \in Reserving
    \/ /\ pc[b] = "crashed" /\ outcome[b] # "committed"
       /\ \E i \in Batch(b) : replacement[b][i].backed_up
    \/ outcome[b] = "incomplete"

OwnersInv ==
    /\ \A b \in Builds : Owner(b) => nonce[b] \in reserved
    /\ \A b, c \in Builds : Owner(b) /\ Owner(c) /\ nonce[b] = nonce[c] => b = c

StagingInv(b) ==
    /\ outcome[b] # "committed" => \A i \in Batch(b) :
          replacement[b][i].backed_up => old[nonce[b]][i] # Absent
    /\ pc[b] = "stage" => \A i \in Batch(b) : i < index[b] => new[nonce[b]][i] = Written(b, i)
    /\ pc[b] = "inspect" => \A i \in Batch(b) : new[nonce[b]][i] = Written(b, i)
    /\ pc[b] = "replace" => \A i \in Batch(b) : i >= index[b] => new[nonce[b]][i] = Written(b, i)

\* A destination that was inspected is not a directory, and none becomes one.
InspectedInv(b) ==
    \A i \in Batch(b) : pc[b] = "replace" \/ (pc[b] = "inspect" /\ i < index[b])
        => directory[Destination(b, i)] # Subdirectory

(* A build that nothing disturbs has the directory for itself.             *)
AloneInv ==
    /\ \A b, c \in latest : b = c
    /\ \A b \in latest : pc[b] # "idle"
    /\ \A b \in Undisturbed : \A c \in Builds : c # b => ~Active(c)

\* What a record says of its entry.
RecordInv(b, i) ==
    LET d == Destination(b, i)
        r == replacement[b][i]
    IN  /\ r.installed => directory[d] = Written(b, i) /\ (r.backed_up \/ before[b][d] = Absent)
        /\ r.backed_up => old[nonce[b]][i] = before[b][d]
        /\ r.backed_up /\ ~r.installed => directory[d] = Absent
        /\ Settled(b, i) => directory[d] = before[b][d]

Elsewhere(b) ==
    \A e \in Entries : (\A i \in Batch(b) : Destination(b, i) # e) => directory[e] = before[b][e]

TransactionInv(b) ==
    /\ Elsewhere(b)
    /\ outcome[b] # "committed" => \A i \in Batch(b) : RecordInv(b, i)
    /\ outcome[b] = "committed" => \A i \in Batch(b) : directory[Destination(b, i)] = Written(b, i)
    /\ pc[b] \in {"inspect", "replace"} => \A i \in Batch(b) :
          pc[b] = "replace" \/ i < index[b] =>
             (replacement[b][i].had_original <=> before[b][Destination(b, i)] # Absent)

EmptyInv == \A d \in Nonces \ reserved, i \in Positions : new[d][i] = Absent /\ old[d][i] = Absent

LocalInv == \A b \in Builds : PlaceInv(b) /\ NamesInv(b) /\ OrderInv(b)
SharedInv == OwnersInv /\ (\A b \in Builds : StagingInv(b) /\ InspectedInv(b)) /\ StagingReleased /\ EmptyInv
DirectoryInv == AloneInv /\ \A b \in Undisturbed : TransactionInv(b)
PAInv == Types /\ LocalInv /\ SharedInv /\ DirectoryInv

-----------------------------------------------------------------------------
(* Batches, entries and contents.                                          *)

LEMMA PositionFacts == \A i \in Positions : i \in Nat /\ i # 0
<1> SUFFICES ASSUME NEW i \in Positions PROVE i \in Nat /\ i # 0
  OBVIOUS
<1>1. PICK s \in Batches : i \in DOMAIN s
  BY DEF Positions
<1>2. s \in Seq(Names)
  BY <1>1
<1>3. DOMAIN s = 1 .. Len(s) /\ Len(s) \in Nat
  BY <1>2, LenProperties
<1> QED BY <1>1, <1>3

LEMMA BatchFacts ==
    ASSUME NEW b \in Builds, files[b] \in Batches \union {<<>>}
    PROVE  /\ Batch(b) = 1 .. Len(files[b]) /\ Len(files[b]) \in Nat
           /\ Batch(b) \subseteq Positions
           /\ \A i \in Batch(b) : files[b][i] \in Names /\ Destination(b, i) \in Entries
<1>1. files[b] \in Seq(Names)
  BY EmptySeq
<1>2. Batch(b) = 1 .. Len(files[b]) /\ Len(files[b]) \in Nat
  BY <1>1, LenProperties DEF Batch
<1>3. \A i \in Batch(b) : files[b][i] \in Names
  BY <1>1, <1>2, ElementOfSeq
<1>4. Batch(b) \subseteq Positions
  <2>1. CASE files[b] \in Batches
    BY <2>1 DEF Batch, Positions
  <2>2. CASE files[b] = <<>>
    BY <1>2, <2>2, EmptySeq
  <2> QED BY <2>1, <2>2
<1> QED BY <1>2, <1>3, <1>4 DEF Destination, Entries

LEMMA ContentFacts ==
    /\ \A b \in Builds, i \in Positions : /\ Written(b, i) \in Contents \ {Subdirectory}
                                          /\ Written(b, i) # Absent
    /\ Absent \in Contents \ {Subdirectory} /\ Earlier \in Contents /\ Subdirectory \in Contents
<1>1. Absent # Subdirectory
  BY DEF Absent, Subdirectory
<1>2. ASSUME NEW b \in Builds, NEW i \in Positions
      PROVE  Written(b, i) \in Contents /\ Written(b, i) # Subdirectory /\ Written(b, i) # Absent
  <2>1. i # 0
    BY PositionFacts
  <2>2. Written(b, i).at = i /\ Subdirectory.at = 0 /\ Absent.at = 0
    BY DEF Written, Subdirectory, Absent
  <2> QED BY <2>1, <2>2 DEF Contents
<1> QED BY <1>1, <1>2 DEF Contents

-----------------------------------------------------------------------------
(* What a step of one build leaves of the others.                          *)

SameBuild(c) ==
    /\ pc'[c] = pc[c] /\ files'[c] = files[c] /\ nonce'[c] = nonce[c]
    /\ index'[c] = index[c] /\ replacement'[c] = replacement[c]
    /\ incomplete'[c] = incomplete[c] /\ outcome'[c] = outcome[c]
    /\ before'[c] = before[c]

LEMMA LocalFrame ==
    ASSUME NEW c \in Builds, SameBuild(c), PlaceInv(c), NamesInv(c), OrderInv(c)
    PROVE  PlaceInv(c)' /\ NamesInv(c)' /\ OrderInv(c)'
<1>1. Batch(c)' = Batch(c) /\ \A i : Destination(c, i)' = Destination(c, i) /\ (Settled(c, i)' <=> Settled(c, i))
  BY DEF SameBuild, Batch, Destination, Settled
<1>2. PlaceInv(c)'
  BY <1>1 DEF SameBuild, PlaceInv
<1>3. NamesInv(c)'
  BY <1>1 DEF SameBuild, NamesInv
<1>4. OrderInv(c)'
  BY <1>1 DEF SameBuild, OrderInv
<1> QED BY <1>2, <1>3, <1>4

\* A backup that is not superseded by a success belongs to an owner.
LEMMA BackupOwned ==
    ASSUME Types, LocalInv, NEW c \in Builds, outcome[c] # "committed",
           NEW i \in Batch(c), replacement[c][i].backed_up
    PROVE  Owner(c)
<1>1. i \in Positions /\ pc[c] \in Places
  BY BatchFacts DEF Types
<1>2. pc[c] \notin Preparing
  BY <1>1 DEF LocalInv, OrderInv, Settled
<1>3. outcome[c] \in {"none", "failed", "incomplete"}
  BY DEF Types
<1>4. pc[c] \in {"returned", "residue"} => outcome[c] = "incomplete"
  BY <1>3 DEF LocalInv, OrderInv, PlaceInv, Settled
<1> QED BY <1>1, <1>2, <1>4 DEF Owner, Places, Preparing, Starting, Ended, Reserving

LEMMA StagingFrame ==
    ASSUME Types, LocalInv, OwnersInv, NEW b \in Builds, Owner(b),
           NEW c \in Builds, c # b, StagingInv(c), SameBuild(c),
           \A d \in Nonces : d # nonce[b] => new'[d] = new[d] /\ old'[d] = old[d]
    PROVE  StagingInv(c)'
<1>1. Batch(c)' = Batch(c) /\ nonce[c] \in Nonces
  BY DEF SameBuild, Batch, Types
<1>2. Owner(c) => nonce[c] # nonce[b]
  BY DEF OwnersInv
<1>3. Owner(c) => new'[nonce[c]] = new[nonce[c]] /\ old'[nonce[c]] = old[nonce[c]]
  BY <1>1, <1>2
<1>4. pc[c] \in {"stage", "inspect", "replace"} => Owner(c)
  BY DEF Owner, Reserving
<1>5. outcome[c] # "committed" => \A i \in Batch(c) :
          replacement[c][i].backed_up => old'[nonce[c]][i] # Absent
  BY <1>3, BackupOwned DEF StagingInv
<1> QED BY <1>1, <1>3, <1>4, <1>5 DEF StagingInv, SameBuild


\* What is left to show of a step of a build that has a staging directory.
OwnFrame(b) ==
    /\ \A c \in Builds : c # b => SameBuild(c)
    /\ \A d \in Nonces : d # nonce[b] => new'[d] = new[d] /\ old'[d] = old[d]
    /\ nonce' = nonce /\ files' = files /\ before' = before
    /\ latest' = latest /\ alone' = alone /\ found' = found
    /\ \A e \in Entries : directory'[e] = Subdirectory => directory[e] = Subdirectory

OwnConclusions(b) ==
    /\ PlaceInv(b)' /\ NamesInv(b)' /\ OrderInv(b)' /\ StagingInv(b)' /\ InspectedInv(b)'
    /\ b \in Undisturbed => TransactionInv(b)'

LEMMA OwnStep ==
    ASSUME PAInv, NEW b \in Builds, pc[b] \in Reserving, OwnFrame(b), reserved' = reserved,
           pc'[b] \in Reserving \union {"crashed", "residue"} \/ outcome'[b] = "incomplete",
           Types', OwnConclusions(b)
    PROVE  PAInv'
<1> USE DEF PAInv
<1>1. LocalInv'
  BY LocalFrame DEF LocalInv, OwnFrame, OwnConclusions
<1>2. Owner(b) /\ Active(b)
  BY DEF Owner, Reserving, Active, Ended
<1>3. ASSUME NEW c \in Builds, Owner(c)' PROVE Owner(c)
  <2>1. CASE c # b
    BY <1>3, <2>1 DEF Owner, OwnFrame, SameBuild, Batch
  <2> QED BY <1>2, <2>1
<1>4. OwnersInv'
  BY <1>3 DEF OwnersInv, OwnFrame, SharedInv
<1>5. \A c \in Builds : StagingInv(c)' /\ InspectedInv(c)'
  <2>1. ASSUME NEW c \in Builds, c # b PROVE InspectedInv(c)'
    <3>1. SameBuild(c) /\ Batch(c)' = Batch(c) /\ \A i \in Batch(c) : Destination(c, i)' = Destination(c, i)
      BY <2>1 DEF OwnFrame, SameBuild, Batch, Destination
    <3>2. \A i \in Batch(c) : Destination(c, i) \in Entries
      BY BatchFacts DEF Types
    <3>3. InspectedInv(c)
      BY DEF SharedInv
    <3> QED BY <3>1, <3>2, <3>3 DEF InspectedInv, OwnFrame, SameBuild, Subdirectory
  <2>2. \A c \in Builds : StagingInv(c)'
    BY <1>2, StagingFrame DEF OwnFrame, OwnConclusions, SharedInv
  <2> QED BY <2>1, <2>2 DEF OwnConclusions
<1>6. StagingReleased'
  <2>1. ASSUME NEW d \in reserved \ found, NEW c \in Builds, nonce[c] = d,
               \/ Active(c) /\ pc[c] \notin {"lower", "reserve"}
               \/ pc[c] \in {"crashed", "residue"}
               \/ outcome[c] = "incomplete"
        PROVE  /\ nonce'[c] = d
               /\ \/ Active(c)' /\ pc'[c] \notin {"lower", "reserve"}
                  \/ pc'[c] \in {"crashed", "residue"}
                  \/ outcome'[c] = "incomplete"
    <3>1. CASE c = b
      BY <2>1, <3>1 DEF OwnFrame, Active, Reserving, Ended
    <3>2. CASE c # b
      BY <2>1, <3>2 DEF OwnFrame, SameBuild, Active
    <3> QED BY <3>1, <3>2
  <2> QED BY <2>1 DEF StagingReleased, SharedInv, OwnFrame
<1>7. EmptyInv'
  <2>1. nonce[b] \in reserved
    BY <1>2 DEF SharedInv, OwnersInv
  <2> QED BY <2>1 DEF EmptyInv, SharedInv, OwnFrame
<1>8. AloneInv'
  <2>1. \A c \in Builds : c # b => (Active(c)' <=> Active(c)) /\ pc'[c] = pc[c]
    BY DEF OwnFrame, SameBuild, Active
  <2>2. Undisturbed' = Undisturbed
    BY DEF Undisturbed, OwnFrame
  <2>3. \A c \in Undisturbed : c = b
    BY <1>2 DEF DirectoryInv, AloneInv, Undisturbed, Types
  <2>4. pc'[b] # "idle"
    <3>1. outcome'[b] = "incomplete" => pc'[b] = "returned"
      BY DEF OwnConclusions, PlaceInv
    <3> QED BY <3>1 DEF Reserving
  <2>5. \A c \in latest' : pc'[c] # "idle"
    BY <2>1, <2>4 DEF DirectoryInv, AloneInv, OwnFrame, Types
  <2>6. \A c \in Undisturbed' : \A a \in Builds : a # c => ~Active(a)'
    BY <2>1, <2>2, <2>3 DEF DirectoryInv, AloneInv
  <2> QED BY <2>5, <2>6 DEF AloneInv, DirectoryInv, OwnFrame
<1>9. \A c \in Undisturbed' : TransactionInv(c)'
  <2>1. Undisturbed' = Undisturbed
    BY DEF Undisturbed, OwnFrame
  <2>2. \A c \in Undisturbed : c = b
    BY <1>2 DEF DirectoryInv, AloneInv, Undisturbed, Types
  <2> QED BY <2>1, <2>2 DEF OwnConclusions
<1> QED BY <1>1, <1>4, <1>5, <1>6, <1>7, <1>8, <1>9 DEF SharedInv, DirectoryInv


-----------------------------------------------------------------------------
(* Steps that leave the directory, the staging directories and the records *)
(* as they are.                                                            *)

\* Such a step of a build moves only its place, its index and its outcome.
QuietFrame(b) ==
    /\ UNCHANGED <<directory, new, old, replacement, reserved, nonce>>
    /\ UNCHANGED <<files, before, latest, alone, found>>
    /\ \E there \in Places : Goto(b, there)
    /\ index' = index \/ \E i \in Nat : At(b, i)
    /\ outcome' = outcome \/ \E what \in {"failed", "incomplete"} : Returns(b, what)
    /\ incomplete' = incomplete \/ incomplete' = [incomplete EXCEPT ![b] = TRUE]

LEMMA QuietFacts ==
    ASSUME Types, NEW b \in Builds, QuietFrame(b)
    PROVE  /\ Types' /\ OwnFrame(b)
           /\ Batch(b)' = Batch(b) /\ Batch(b) = 1 .. Len(files[b]) /\ Len(files[b]) \in Nat
           /\ \A i : Destination(b, i)' = Destination(b, i) /\ (Settled(b, i)' <=> Settled(b, i))
           /\ \A i : RecordInv(b, i)' <=> RecordInv(b, i)
           /\ Elsewhere(b)' <=> Elsewhere(b)
<1>1. /\ directory' = directory /\ new' = new /\ old' = old /\ replacement' = replacement
      /\ reserved' = reserved /\ nonce' = nonce /\ files' = files /\ before' = before
      /\ latest' = latest /\ alone' = alone /\ found' = found
  BY DEF QuietFrame
<1>2. /\ pc' \in [Builds -> Places] /\ index' \in [Builds -> Nat] /\ incomplete' \in [Builds -> BOOLEAN]
      /\ outcome' \in [Builds -> {"none", "failed", "incomplete", "committed"}]
  <2>1. pc' \in [Builds -> Places]
    BY DEF QuietFrame, Types, Goto
  <2>2. index' \in [Builds -> Nat]
    BY DEF QuietFrame, Types, At
  <2>3. incomplete' \in [Builds -> BOOLEAN]
    BY DEF QuietFrame, Types
  <2>4. outcome' \in [Builds -> {"none", "failed", "incomplete", "committed"}]
    BY DEF QuietFrame, Types, Returns
  <2> QED BY <2>1, <2>2, <2>3, <2>4
<1>3. Types'
  BY <1>1, <1>2 DEF Types
<1>4. \A c \in Builds : c # b =>
        /\ pc'[c] = pc[c] /\ index'[c] = index[c] /\ incomplete'[c] = incomplete[c]
        /\ outcome'[c] = outcome[c]
  <2>1. \A c \in Builds : c # b => pc'[c] = pc[c]
    BY DEF QuietFrame, Types, Goto
  <2>2. \A c \in Builds : c # b => index'[c] = index[c]
    BY DEF QuietFrame, Types, At
  <2>3. \A c \in Builds : c # b => incomplete'[c] = incomplete[c]
    BY DEF QuietFrame, Types
  <2>4. \A c \in Builds : c # b => outcome'[c] = outcome[c]
    BY DEF QuietFrame, Types, Returns
  <2> QED BY <2>1, <2>2, <2>3, <2>4
<1>5. OwnFrame(b)
  BY <1>1, <1>4 DEF OwnFrame, SameBuild
<1>6. Batch(b)' = Batch(b) /\ \A i : Destination(b, i)' = Destination(b, i) /\ (Settled(b, i)' <=> Settled(b, i))
  BY <1>1 DEF Batch, Destination, Settled
<1>7. \A i : RecordInv(b, i)' <=> RecordInv(b, i)
  BY <1>1, <1>6 DEF RecordInv, Written
<1>8. Elsewhere(b)' <=> Elsewhere(b)
  BY <1>1, <1>6 DEF Elsewhere
<1>9. Batch(b) = 1 .. Len(files[b]) /\ Len(files[b]) \in Nat
  BY BatchFacts DEF Types
<1> QED BY <1>3, <1>5, <1>6, <1>7, <1>8, <1>9

\* An error before the first file is replaced: there is nothing to undo.
LEMMA QuitStep ==
    ASSUME PAInv, NEW b \in Builds, pc[b] \in {"probe", "stage", "inspect"}, Quit(b),
           UNCHANGED <<directory, new, old, replacement, reserved, nonce>>,
           UNCHANGED <<files, before, latest, alone, found>>,
           index' = index, incomplete' = incomplete
    PROVE  PAInv'
<1>0. Types /\ PlaceInv(b) /\ OrderInv(b) /\ StagingInv(b) /\ (b \in Undisturbed => TransactionInv(b))
  BY DEF PAInv, LocalInv, SharedInv, DirectoryInv
<1>1. QuietFrame(b)
  BY DEF QuietFrame, Quit, Places, Reserving
<1>2. pc'[b] = "cleanup" /\ outcome'[b] = "failed" /\ outcome[b] = "none"
  BY <1>0 DEF Types, Quit, Goto, Returns, PlaceInv, Preparing, Starting
<1>3. \A i \in Batch(b) : Settled(b, i)
  BY <1>0, BatchFacts DEF OrderInv, Preparing, Starting, Types
<1>4. PlaceInv(b)'
  BY <1>0, <1>1, <1>2, QuietFacts DEF PlaceInv, Preparing, Starting, Reserving, QuietFrame
<1>5. NamesInv(b)'
  BY <1>2 DEF NamesInv
<1>6. OrderInv(b)'
  BY <1>0, <1>1, <1>2, <1>3, QuietFacts DEF OrderInv, Preparing, Starting
<1>7. StagingInv(b)'
  BY <1>0, <1>1, <1>2, <1>3, QuietFacts DEF StagingInv, Settled
<1>8. b \in Undisturbed => TransactionInv(b)'
  BY <1>0, <1>1, <1>2, QuietFacts DEF TransactionInv
<1> QED BY <1>0, <1>1, <1>2, <1>4, <1>5, <1>6, <1>7, <1>8, QuietFacts, OwnStep DEF OwnConclusions, InspectedInv, QuietFrame, Reserving

\* A rename fails: the rollback begins at the last record of the batch.
LEMMA AbortStep ==
    ASSUME PAInv, NEW b \in Builds, pc[b] = "replace", Abort(b),
           UNCHANGED <<reserved, nonce>>,
           UNCHANGED <<files, before, latest, alone, found>>, incomplete' = incomplete
    PROVE  PAInv'
<1>0. Types /\ PlaceInv(b) /\ NamesInv(b) /\ StagingInv(b) /\ (b \in Undisturbed => TransactionInv(b))
  BY DEF PAInv, LocalInv, SharedInv, DirectoryInv
<1>a. Batch(b) = 1 .. Len(files[b]) /\ Len(files[b]) \in Nat
  BY <1>0, BatchFacts DEF Types
<1>1. QuietFrame(b)
  BY <1>a DEF QuietFrame, Abort, Places, Reserving, Untouchable
<1>2. pc'[b] = "rollback" /\ outcome'[b] = "failed" /\ index'[b] = Len(files[b]) /\ outcome[b] = "none"
  BY <1>0 DEF Types, Abort, Goto, At, Returns, PlaceInv
<1>3. files' = files
  BY DEF QuietFrame
<1>4. PlaceInv(b)'
  <2>1. Batch(b)' = Batch(b) /\ Batch(b) # {}
    BY <1>0, <1>1, QuietFacts DEF PlaceInv, Reserving
  <2>2. index'[b] \in 0 .. Len(files'[b])
    BY <1>2, <1>3, <1>a
  <2> QED BY <1>2, <2>1, <2>2 DEF PlaceInv, Preparing, Starting
<1>5. NamesInv(b)'
  BY <1>0, <1>1, <1>2, QuietFacts DEF NamesInv
<1>6. OrderInv(b)'
  <2>1. Batch(b)' = Batch(b) /\ \A i \in Batch(b) : ~(i > index'[b])
    BY <1>0, <1>1, <1>2, <1>a, QuietFacts
  <2> QED BY <1>2, <2>1 DEF OrderInv, Preparing, Starting
<1>7. StagingInv(b)'
  BY <1>0, <1>1, <1>2, QuietFacts DEF StagingInv, QuietFrame
<1>8. b \in Undisturbed => TransactionInv(b)'
  BY <1>0, <1>1, <1>2, QuietFacts DEF TransactionInv
<1> QED BY <1>0, <1>1, <1>2, <1>4, <1>5, <1>6, <1>7, <1>8, QuietFacts, OwnStep DEF OwnConclusions, InspectedInv, QuietFrame, Reserving


LEMMA ProbeNamesStep ==
    ASSUME PAInv, NEW b \in Builds, ProbeNames(b)
    PROVE  PAInv'
<1> USE DEF Untouchable, Staging, Batching
<1>1. CASE Quit(b)
  BY <1>1, QuitStep DEF ProbeNames
<1>2. CASE /\ \/ \A i \in Batch(b) : files[b][i] \notin NonAscii
              \/ \A i, j \in Batch(b) : Destination(b, i) = Destination(b, j) => i = j
           /\ Goto(b, "stage") /\ outcome' = outcome
  <2>0. /\ Types /\ PlaceInv(b) /\ NamesInv(b) /\ OrderInv(b) /\ StagingInv(b)
        /\ b \in Undisturbed => TransactionInv(b)
        /\ pc[b] = "probe"
    BY DEF PAInv, LocalInv, SharedInv, DirectoryInv, ProbeNames
  <2>a. Batch(b) = 1 .. Len(files[b]) /\ Len(files[b]) \in Nat /\ \A i \in Batch(b) : files[b][i] \in Names
    BY <2>0, BatchFacts DEF Types
  <2>1. QuietFrame(b)
    BY <1>2 DEF QuietFrame, ProbeNames, Places, Preparing
  <2>2. pc'[b] = "stage" /\ outcome'[b] = "none" /\ outcome[b] = "none" /\ index'[b] = 1 /\ files' = files
    BY <1>2, <2>0 DEF Types, Goto, ProbeNames, PlaceInv, Preparing, Starting
  <2>3. \A i, j \in Batch(b) : Destination(b, i) = Destination(b, j) => i = j
    <3>1. CASE \A i \in Batch(b) : files[b][i] \notin NonAscii
      <4>1. ASSUME NEW i \in Batch(b), NEW j \in Batch(b), Destination(b, i) = Destination(b, j) PROVE i = j
        <5>1. files[b][i] \in Names \ NonAscii /\ files[b][j] \in Names \ NonAscii
          BY <2>a, <3>1
        <5>2. Fold[files[b][i]] = Fold[files[b][j]]
          BY <4>1, <5>1 DEF Destination
        <5> QED BY <2>0, <5>2 DEF NamesInv
      <4> QED BY <4>1
    <3> QED BY <1>2, <3>1
  <2>4. PlaceInv(b)'
    <3>1. Batch(b)' = Batch(b) /\ Batch(b) # {} /\ 1 \in Batch(b)
      BY <2>0, <2>1, <2>a, QuietFacts DEF PlaceInv, Reserving
    <3>2. index'[b] \in 0 .. Len(files'[b]) \union {1}
      BY <2>2
    <3> QED BY <2>2, <3>1, <3>2 DEF PlaceInv, Preparing, Starting
  <2>5. NamesInv(b)'
    BY <2>0, <2>1, <2>2, <2>3, QuietFacts DEF NamesInv
  <2>6. OrderInv(b)'
    BY <2>0, <2>1, <2>2, QuietFacts DEF OrderInv, Preparing, Starting
  <2>7. StagingInv(b)'
    <3>1. Batch(b)' = Batch(b) /\ \A i \in Batch(b) : ~(i < index'[b])
      BY <2>0, <2>1, <2>2, <2>a, QuietFacts
    <3> QED BY <2>0, <2>1, <2>2, <3>1 DEF StagingInv, QuietFrame
  <2>8. b \in Undisturbed => TransactionInv(b)'
    BY <2>0, <2>1, <2>2, QuietFacts DEF TransactionInv
  <2> QED BY <2>0, <2>1, <2>2, <2>4, <2>5, <2>6, <2>7, <2>8, QuietFacts, OwnStep DEF OwnConclusions, InspectedInv, QuietFrame, Reserving
<1> QED BY <1>1, <1>2 DEF ProbeNames

\* The rollback goes on with the record before: this one is settled, or its
\* failure has been recorded.
LEMMA RollBackGoesOn ==
    ASSUME PAInv, NEW b \in Builds, pc[b] = "rollback", index[b] # 0, At(b, index[b] - 1),
           \/ incomplete' = incomplete /\ Settled(b, index[b])
           \/ incomplete' = [incomplete EXCEPT ![b] = TRUE],
           pc' = pc, outcome' = outcome,
           UNCHANGED <<Untouchable, Staging, Batching>>
    PROVE  PAInv'
<1> USE DEF Untouchable, Staging, Batching
<1>0. /\ Types /\ PlaceInv(b) /\ NamesInv(b) /\ OrderInv(b) /\ StagingInv(b)
      /\ b \in Undisturbed => TransactionInv(b)
  BY DEF PAInv, LocalInv, SharedInv, DirectoryInv
<1>a. Batch(b) = 1 .. Len(files[b]) /\ Len(files[b]) \in Nat /\ index[b] \in 1 .. Len(files[b])
  BY <1>0, BatchFacts DEF Types, PlaceInv
<1>b. pc' = [pc EXCEPT ![b] = "rollback"]
  BY <1>0 DEF Types
<1>1. QuietFrame(b)
  <2>1. Goto(b, "rollback") /\ "rollback" \in Places
    BY <1>b DEF Goto, Places, Reserving
  <2>2. index[b] - 1 \in Nat
    BY <1>a
  <2> QED BY <2>1, <2>2 DEF QuietFrame
<1>2. /\ index'[b] = index[b] - 1 /\ pc'[b] = "rollback" /\ files' = files
      /\ outcome'[b] = "failed" /\ outcome[b] = "failed"
  BY <1>0 DEF Types, At, PlaceInv
<1>3. PlaceInv(b)'
  <2>1. Batch(b)' = Batch(b) /\ Batch(b) # {}
    BY <1>0, <1>1, QuietFacts DEF PlaceInv, Reserving
  <2>2. index'[b] \in 0 .. Len(files'[b])
    BY <1>2, <1>a
  <2> QED BY <1>2, <2>1, <2>2 DEF PlaceInv, Preparing, Starting
<1>4. NamesInv(b)'
  BY <1>0, <1>1, <1>2, QuietFacts DEF NamesInv
<1>5. OrderInv(b)'
  <2>1. ASSUME ~incomplete'[b], NEW i \in Batch(b), i > index'[b] PROVE Settled(b, i)
    <3>1. ~incomplete[b] /\ Settled(b, index[b])
      BY <1>0, <2>1 DEF Types
    <3>2. i = index[b] \/ i > index[b]
      BY <1>2, <1>a, <2>1
    <3> QED BY <1>0, <3>1, <3>2 DEF OrderInv
  <2> QED BY <1>0, <1>1, <1>2, <2>1, QuietFacts DEF OrderInv, Preparing, Starting
<1>6. StagingInv(b)'
  BY <1>0, <1>1, <1>2, QuietFacts DEF StagingInv, QuietFrame
<1>7. b \in Undisturbed => TransactionInv(b)'
  BY <1>0, <1>1, <1>2, QuietFacts DEF TransactionInv
<1> QED BY <1>0, <1>1, <1>2, <1>3, <1>4, <1>5, <1>6, <1>7, QuietFacts, OwnStep DEF OwnConclusions, InspectedInv, QuietFrame, Reserving

LEMMA EndRollBackStep ==
    ASSUME PAInv, NEW b \in Builds, EndRollBack(b)
    PROVE  PAInv'
<1> USE DEF Untouchable, Staging, Batching
<1>0. /\ Types /\ PlaceInv(b) /\ NamesInv(b) /\ OrderInv(b) /\ StagingInv(b)
      /\ b \in Undisturbed => TransactionInv(b)
      /\ pc[b] = "rollback" /\ index[b] = 0 /\ index' = index /\ incomplete' = incomplete
  BY DEF PAInv, LocalInv, SharedInv, DirectoryInv, EndRollBack
<1>a. Batch(b) = 1 .. Len(files[b]) /\ Len(files[b]) \in Nat /\ outcome[b] = "failed"
  BY <1>0, BatchFacts DEF Types, PlaceInv
<1>1. QuietFrame(b)
  <2>1. \E there \in Places : Goto(b, there)
    BY DEF EndRollBack, Places, Reserving, Ended
  <2>2. outcome' = outcome \/ \E what \in {"failed", "incomplete"} : Returns(b, what)
    BY DEF EndRollBack
  <2> QED BY <2>1, <2>2 DEF QuietFrame, EndRollBack
<1>2. \/ /\ pc'[b] = "returned" /\ outcome'[b] = "incomplete"
      \/ /\ pc'[b] = "cleanup" /\ outcome'[b] = "failed"
         /\ \A i \in Batch(b) : Settled(b, i)
  <2>1. ~incomplete[b] => \A i \in Batch(b) : Settled(b, i)
    BY <1>0, <1>a DEF OrderInv
  <2> QED BY <1>0, <1>a, <2>1 DEF EndRollBack, Types, Goto, Returns
<1>3. PlaceInv(b)'
  <2>1. Batch(b)' = Batch(b) /\ Batch(b) # {} /\ files' = files
    BY <1>0, <1>1, QuietFacts DEF PlaceInv, Reserving, QuietFrame
  <2> QED BY <1>0, <1>2, <2>1 DEF PlaceInv, Preparing, Starting, Reserving
<1>4. NamesInv(b)'
  BY <1>2 DEF NamesInv
<1>5. OrderInv(b)'
  BY <1>0, <1>1, <1>2, QuietFacts DEF OrderInv, Preparing, Starting
<1>6. StagingInv(b)'
  BY <1>0, <1>1, <1>2, <1>a, QuietFacts DEF StagingInv, QuietFrame
<1>7. b \in Undisturbed => TransactionInv(b)'
  BY <1>0, <1>1, <1>2, <1>a, QuietFacts DEF TransactionInv
<1> QED BY <1>0, <1>1, <1>2, <1>3, <1>4, <1>5, <1>6, <1>7, QuietFacts, OwnStep DEF OwnConclusions, InspectedInv, QuietFrame, Reserving

\* A process that is killed leaves what it has in the directory.
LEMMA ReservedCrash ==
    ASSUME PAInv, NEW b \in Builds, Crash(b), pc[b] \in Reserving
    PROVE  PAInv'
<1> USE DEF Untouchable, Staging, Batching
<1>0. /\ Types /\ PlaceInv(b) /\ StagingInv(b)
      /\ b \in Undisturbed => TransactionInv(b)
      /\ index' = index /\ incomplete' = incomplete /\ outcome' = outcome
  BY DEF PAInv, LocalInv, SharedInv, DirectoryInv, Crash
<1>1. QuietFrame(b)
  BY DEF QuietFrame, Crash, Places, Ended
<1>2. pc'[b] = "crashed" /\ outcome'[b] # "incomplete"
  BY <1>0 DEF Types, Goto, Crash, PlaceInv, Reserving
<1>3. PlaceInv(b)'
  BY <1>0, <1>1, <1>2 DEF PlaceInv, Preparing, Starting, Reserving, QuietFrame
<1>4. NamesInv(b)' /\ OrderInv(b)'
  BY <1>2 DEF NamesInv, OrderInv, Preparing, Starting
<1>5. StagingInv(b)'
  BY <1>0, <1>1, <1>2, QuietFacts DEF StagingInv, QuietFrame
<1>6. b \in Undisturbed => TransactionInv(b)'
  BY <1>0, <1>1, <1>2, QuietFacts DEF TransactionInv, QuietFrame, Written
<1> QED BY <1>0, <1>1, <1>2, <1>3, <1>4, <1>5, <1>6, QuietFacts, OwnStep DEF OwnConclusions, InspectedInv, QuietFrame


-----------------------------------------------------------------------------
(* Steps that prepare the staging directory.                               *)

LEMMA AdvanceFacts ==
    ASSUME Types, NEW b \in Builds, index[b] \in Batch(b), NEW here \in Places, NEW after \in Places,
           Advance(b, here, after)
    PROVE  /\ pc' \in [Builds -> Places] /\ index' \in [Builds -> Nat]
           /\ \A c \in Builds : c # b => pc'[c] = pc[c] /\ index'[c] = index[c]
           /\ \/ /\ index[b] < Len(files[b]) /\ index[b] + 1 \in Batch(b)
                 /\ index'[b] = index[b] + 1 /\ pc'[b] = here
              \/ /\ index[b] = Len(files[b])
                 /\ index'[b] = 1 /\ pc'[b] = after /\ 1 \in Batch(b)
<1>1. Batch(b) = 1 .. Len(files[b]) /\ Len(files[b]) \in Nat
  BY BatchFacts DEF Types
<1>2. CASE index[b] < Len(files[b])
  <2>1. At(b, index[b] + 1) /\ Goto(b, here) /\ index[b] + 1 \in Batch(b) /\ index[b] + 1 \in Nat
    BY <1>1, <1>2 DEF Advance
  <2> QED BY <1>2, <2>1 DEF Types, At, Goto
<1>3. CASE ~(index[b] < Len(files[b]))
  <2>1. At(b, 1) /\ Goto(b, after)
    BY <1>3 DEF Advance
  <2>2. index[b] = Len(files[b]) /\ 1 \in Batch(b)
    BY <1>1, <1>3
  <2> QED BY <2>1, <2>2 DEF Types, At, Goto
<1> QED BY <1>2, <1>3

LEMMA WriteStagedFileStep ==
    ASSUME PAInv, NEW b \in Builds, WriteStagedFile(b)
    PROVE  PAInv'
<1> USE DEF Untouchable, Staging, Batching
<1>1. CASE Quit(b) /\ new' = new /\ index' = index
  BY <1>1, QuitStep DEF WriteStagedFile
<1>2. CASE /\ new' = [new EXCEPT ![nonce[b]][index[b]] = Written(b, index[b])]
           /\ Advance(b, "stage", "inspect") /\ outcome' = outcome
  <2> DEFINE n == nonce[b]
  <2> DEFINE i == index[b]
  <2>0. /\ Types /\ PlaceInv(b) /\ NamesInv(b) /\ OrderInv(b) /\ StagingInv(b)
        /\ b \in Undisturbed => TransactionInv(b)
        /\ pc[b] = "stage" /\ i \in Batch(b) /\ outcome[b] = "none"
    BY DEF PAInv, LocalInv, SharedInv, DirectoryInv, WriteStagedFile, PlaceInv, Preparing
  <2>a. /\ Batch(b) = 1 .. Len(files[b]) /\ Len(files[b]) \in Nat /\ Batch(b) \subseteq Positions
        /\ n \in Nonces
    BY <2>0, BatchFacts DEF Types
  <2>b. /\ directory' = directory /\ old' = old /\ replacement' = replacement /\ reserved' = reserved
        /\ nonce' = nonce /\ files' = files /\ before' = before /\ latest' = latest /\ alone' = alone
        /\ found' = found /\ incomplete' = incomplete /\ outcome' = outcome
    BY <1>2 DEF WriteStagedFile
  <2>c. "stage" \in Places /\ "inspect" \in Places
    BY DEF Places, Reserving
  <2>d. /\ pc' \in [Builds -> Places] /\ index' \in [Builds -> Nat]
        /\ \A c \in Builds : c # b => pc'[c] = pc[c] /\ index'[c] = index[c]
        /\ \/ i < Len(files[b]) /\ i + 1 \in Batch(b) /\ index'[b] = i + 1 /\ pc'[b] = "stage"
           \/ i = Len(files[b]) /\ index'[b] = 1 /\ pc'[b] = "inspect" /\ 1 \in Batch(b)
    BY <1>2, <2>0, <2>c, AdvanceFacts
  <2>e. /\ new' \in [Nonces -> [Positions -> Contents \ {Subdirectory}]]
        /\ new'[n][i] = Written(b, i) /\ \A j \in Positions : j # i => new'[n][j] = new[n][j]
        /\ \A d \in Nonces : d # n => new'[d] = new[d]
    <3>1. Written(b, i) \in Contents \ {Subdirectory} /\ i \in Positions
      BY <2>0, <2>a, ContentFacts
    <3>2. new \in [Nonces -> [Positions -> Contents \ {Subdirectory}]]
      BY <2>0 DEF Types
    <3> QED BY <1>2, <2>a, <3>1, <3>2
  <2> HIDE DEF n, i
  <2>1. Types'
    BY <2>0, <2>b, <2>d, <2>e DEF Types
  <2>2. OwnFrame(b)
    BY <2>b, <2>d, <2>e DEF OwnFrame, SameBuild, n
  <2>3. Batch(b)' = Batch(b) /\ \A j : Destination(b, j)' = Destination(b, j) /\ (Settled(b, j)' <=> Settled(b, j))
    BY <2>b DEF Batch, Destination, Settled
  <2>4. PlaceInv(b)'
    <3>1. index'[b] \in Batch(b) /\ index'[b] \in 0 .. Len(files'[b])
      BY <2>a, <2>b, <2>d
    <3> QED BY <2>0, <2>b, <2>d, <2>3, <3>1 DEF PlaceInv, Preparing, Starting, Reserving
  <2>5. NamesInv(b)' /\ OrderInv(b)'
    BY <2>0, <2>b, <2>d, <2>3 DEF NamesInv, OrderInv, Preparing, Starting
  <2>6. StagingInv(b)'
    <3>1. \A j \in Batch(b) : j < i => new[n][j] = Written(b, j)
      BY <2>0 DEF StagingInv, n, i
    <3>2. \A j \in Batch(b) : j <= i => new'[n][j] = Written(b, j)
      BY <2>a, <2>e, <3>1, <2>0 DEF i
    <3>3. pc'[b] = "stage" => \A j \in Batch(b) : j < index'[b] => new'[n][j] = Written(b, j)
      BY <2>0, <2>a, <2>d, <3>2 DEF i
    <3>4. pc'[b] = "inspect" => \A j \in Batch(b) : new'[n][j] = Written(b, j)
      BY <2>0, <2>a, <2>d, <3>2 DEF i
    <3> QED BY <2>0, <2>b, <2>d, <2>3, <3>3, <3>4 DEF StagingInv, Written, n
  <2>7. b \in Undisturbed => TransactionInv(b)'
    <3>1. \A j \in Batch(b) : RecordInv(b, j)' <=> RecordInv(b, j)
      BY <2>b, <2>3 DEF RecordInv, Written
    <3>2. Elsewhere(b)' <=> Elsewhere(b)
      BY <2>b, <2>3 DEF Elsewhere
    <3>3. pc'[b] = "inspect" => \A j \in Batch(b) : ~(j < index'[b])
      BY <2>a, <2>d
    <3> QED BY <2>0, <2>b, <2>d, <2>3, <3>1, <3>2, <3>3 DEF TransactionInv
  <2>8. InspectedInv(b)'
    <3>1. pc'[b] = "inspect" => \A j \in Batch(b) : ~(j < index'[b])
      BY <2>a, <2>d
    <3> QED BY <2>d, <2>3, <3>1 DEF InspectedInv
  <2> QED BY <2>0, <2>1, <2>2, <2>b, <2>d, <2>4, <2>5, <2>6, <2>7, <2>8, OwnStep DEF OwnConclusions, Reserving
<1> QED BY <1>1, <1>2 DEF WriteStagedFile


\* The records of a build, one flag at a time.
HadOriginalBecomes(b, i, v) == replacement' = [replacement EXCEPT ![b][i].had_original = v]
BackedUpBecomes(b, i, v) == replacement' = [replacement EXCEPT ![b][i].backed_up = v]
InstalledBecomes(b, i, v) == replacement' = [replacement EXCEPT ![b][i].installed = v]

OnlyRecord(b, i) ==
    /\ replacement' \in [Builds -> [Positions -> Replacements]]
    /\ \A c \in Builds : c # b => replacement'[c] = replacement[c]
    /\ \A j \in Positions : j # i => replacement'[b][j] = replacement[b][j]

LEMMA SetHadOriginal ==
    ASSUME Types, NEW b \in Builds, NEW i \in Positions, NEW v \in BOOLEAN, HadOriginalBecomes(b, i, v)
    PROVE  /\ OnlyRecord(b, i)
           /\ replacement'[b][i].had_original = v
           /\ replacement'[b][i].backed_up = replacement[b][i].backed_up
           /\ replacement'[b][i].installed = replacement[b][i].installed
<1> DEFINE r == [replacement[b][i] EXCEPT !.had_original = v]
<1>1. replacement \in [Builds -> [Positions -> Replacements]] /\ replacement[b][i] \in Replacements
  BY DEF Types
<1>2. /\ r \in Replacements /\ r.had_original = v
      /\ r.backed_up = replacement[b][i].backed_up /\ r.installed = replacement[b][i].installed
  BY <1>1 DEF Replacements
<1> HIDE DEF r
<1>3. replacement' = [replacement EXCEPT ![b] = [replacement[b] EXCEPT ![i] = r]]
  BY DEF HadOriginalBecomes, r
<1> QED BY <1>1, <1>2, <1>3 DEF OnlyRecord

LEMMA SetBackedUp ==
    ASSUME Types, NEW b \in Builds, NEW i \in Positions, NEW v \in BOOLEAN, BackedUpBecomes(b, i, v)
    PROVE  /\ OnlyRecord(b, i)
           /\ replacement'[b][i].backed_up = v
           /\ replacement'[b][i].had_original = replacement[b][i].had_original
           /\ replacement'[b][i].installed = replacement[b][i].installed
<1> DEFINE r == [replacement[b][i] EXCEPT !.backed_up = v]
<1>1. replacement \in [Builds -> [Positions -> Replacements]] /\ replacement[b][i] \in Replacements
  BY DEF Types
<1>2. /\ r \in Replacements /\ r.backed_up = v
      /\ r.had_original = replacement[b][i].had_original /\ r.installed = replacement[b][i].installed
  BY <1>1 DEF Replacements
<1> HIDE DEF r
<1>3. replacement' = [replacement EXCEPT ![b] = [replacement[b] EXCEPT ![i] = r]]
  BY DEF BackedUpBecomes, r
<1> QED BY <1>1, <1>2, <1>3 DEF OnlyRecord

LEMMA SetInstalled ==
    ASSUME Types, NEW b \in Builds, NEW i \in Positions, NEW v \in BOOLEAN, InstalledBecomes(b, i, v)
    PROVE  /\ OnlyRecord(b, i)
           /\ replacement'[b][i].installed = v
           /\ replacement'[b][i].had_original = replacement[b][i].had_original
           /\ replacement'[b][i].backed_up = replacement[b][i].backed_up
<1> DEFINE r == [replacement[b][i] EXCEPT !.installed = v]
<1>1. replacement \in [Builds -> [Positions -> Replacements]] /\ replacement[b][i] \in Replacements
  BY DEF Types
<1>2. /\ r \in Replacements /\ r.installed = v
      /\ r.had_original = replacement[b][i].had_original /\ r.backed_up = replacement[b][i].backed_up
  BY <1>1 DEF Replacements
<1> HIDE DEF r
<1>3. replacement' = [replacement EXCEPT ![b] = [replacement[b] EXCEPT ![i] = r]]
  BY DEF InstalledBecomes, r
<1> QED BY <1>1, <1>2, <1>3 DEF OnlyRecord

\* The directory is read before anything in it is replaced.
LEMMA InspectDestinationStep ==
    ASSUME PAInv, NEW b \in Builds, InspectDestination(b)
    PROVE  PAInv'
<1> USE DEF Untouchable, Staging, Batching
<1>1. CASE Quit(b) /\ replacement' = replacement /\ index' = index
  BY <1>1, QuitStep DEF InspectDestination
<1>2. CASE /\ directory[Destination(b, index[b])] # Subdirectory
           /\ replacement' = [replacement EXCEPT
                ![b][index[b]].had_original = (directory[Destination(b, index[b])] # Absent)]
           /\ Advance(b, "inspect", "replace") /\ outcome' = outcome
  <2> DEFINE i == index[b]
  <2> DEFINE there == directory[Destination(b, i)] # Absent
  <2>0. /\ Types /\ PlaceInv(b) /\ NamesInv(b) /\ OrderInv(b) /\ StagingInv(b) /\ InspectedInv(b)
        /\ b \in Undisturbed => TransactionInv(b)
        /\ pc[b] = "inspect" /\ i \in Batch(b) /\ outcome[b] = "none"
    BY DEF PAInv, LocalInv, SharedInv, DirectoryInv, InspectDestination, PlaceInv, Preparing
  <2>a. Batch(b) = 1 .. Len(files[b]) /\ Len(files[b]) \in Nat /\ Batch(b) \subseteq Positions
    BY <2>0, BatchFacts DEF Types
  <2>b. /\ directory' = directory /\ old' = old /\ new' = new /\ reserved' = reserved
        /\ nonce' = nonce /\ files' = files /\ before' = before /\ latest' = latest /\ alone' = alone
        /\ found' = found /\ incomplete' = incomplete /\ outcome' = outcome
    BY <1>2 DEF InspectDestination
  <2>c. "inspect" \in Places /\ "replace" \in Places
    BY DEF Places, Reserving
  <2>d. /\ pc' \in [Builds -> Places] /\ index' \in [Builds -> Nat]
        /\ \A c \in Builds : c # b => pc'[c] = pc[c] /\ index'[c] = index[c]
        /\ \/ i < Len(files[b]) /\ i + 1 \in Batch(b) /\ index'[b] = i + 1 /\ pc'[b] = "inspect"
           \/ i = Len(files[b]) /\ index'[b] = 1 /\ pc'[b] = "replace" /\ 1 \in Batch(b)
    BY <1>2, <2>0, <2>c, AdvanceFacts
  <2>e. there \in BOOLEAN /\ i \in Positions
    BY <2>0, <2>a
  <2>g. PICK v \in BOOLEAN : /\ v = there
                             /\ HadOriginalBecomes(b, i, v)
    BY <1>2, <2>e DEF HadOriginalBecomes
  <2> HIDE DEF there
  <2>f. /\ replacement' \in [Builds -> [Positions -> Replacements]]
        /\ \A c \in Builds : c # b => replacement'[c] = replacement[c]
        /\ \A j \in Positions : j # i => replacement'[b][j] = replacement[b][j]
        /\ replacement'[b][i].had_original = v
        /\ replacement'[b][i].backed_up = replacement[b][i].backed_up
        /\ replacement'[b][i].installed = replacement[b][i].installed
    BY <2>0, <2>e, <2>g, SetHadOriginal DEF OnlyRecord
  <2> HIDE DEF i
  <2>1. Types'
    BY <2>0, <2>b, <2>d, <2>f DEF Types
  <2>2. OwnFrame(b)
    BY <2>b, <2>d, <2>f DEF OwnFrame, SameBuild
  <2>3. /\ Batch(b)' = Batch(b) /\ \A j : Destination(b, j)' = Destination(b, j)
        /\ \A j \in Positions : /\ replacement'[b][j].backed_up = replacement[b][j].backed_up
                                /\ replacement'[b][j].installed = replacement[b][j].installed
                                /\ Settled(b, j) /\ Settled(b, j)'
    <3>1. \A j \in Positions : /\ replacement'[b][j].backed_up = replacement[b][j].backed_up
                               /\ replacement'[b][j].installed = replacement[b][j].installed
      BY <2>f
    <3>2. \A j \in Positions : Settled(b, j)
      BY <2>0 DEF OrderInv, Preparing
    <3> QED BY <2>b, <3>1, <3>2 DEF Batch, Destination, Settled
  <2>4. PlaceInv(b)'
    <3>1. index'[b] \in Batch(b) /\ index'[b] \in 0 .. Len(files'[b])
      BY <2>a, <2>b, <2>d
    <3> QED BY <2>0, <2>b, <2>d, <2>3, <3>1 DEF PlaceInv, Preparing, Starting, Reserving
  <2>5. NamesInv(b)' /\ OrderInv(b)'
    <3>1. NamesInv(b)'
      BY <2>0, <2>b, <2>d, <2>3 DEF NamesInv
    <3>2. pc'[b] = "replace" => \A j \in Batch(b) : ~(j < index'[b])
      BY <2>a, <2>d
    <3> QED BY <2>a, <2>d, <2>3, <3>1, <3>2 DEF OrderInv, Preparing, Starting, Settled
  <2>6. StagingInv(b)'
    BY <2>0, <2>a, <2>b, <2>d, <2>3 DEF StagingInv, Written, Settled
  <2>7. ASSUME b \in Undisturbed PROVE TransactionInv(b)'
    <3>0. TransactionInv(b)
      BY <2>0, <2>7
    <3>1. \A j \in Batch(b) : RecordInv(b, j)
      BY <2>0, <3>0 DEF TransactionInv
    <3>2. \A j \in Batch(b) : directory[Destination(b, j)] = before[b][Destination(b, j)]
      BY <2>a, <2>3, <3>1 DEF RecordInv
    <3>3. \A j \in Batch(b) : RecordInv(b, j)'
      BY <2>a, <2>b, <2>3, <3>2 DEF RecordInv, Settled
    <3>4. Elsewhere(b)'
      BY <2>b, <2>3, <3>0 DEF Elsewhere, TransactionInv
    <3>5. \A j \in Batch(b) : j < i =>
             (replacement[b][j].had_original <=> before[b][Destination(b, j)] # Absent)
      BY <2>0, <3>0 DEF TransactionInv, i
    <3>6. there <=> before[b][Destination(b, i)] # Absent
      BY <2>0, <3>2 DEF there
    <3>7. \A j \in Batch(b) : j <= i =>
             (replacement'[b][j].had_original <=> before[b][Destination(b, j)] # Absent)
      <4>1. \A j \in Batch(b) : j <= i => j = i \/ j < i
        BY <2>a, <2>0 DEF i
      <4>2. \A j \in Batch(b) : j < i => j # i
        BY <2>a, <2>0 DEF i
      <4> QED BY <2>a, <2>f, <2>g, <3>5, <3>6, <4>1, <4>2
    <3>8. \A j \in Batch(b) : pc'[b] = "replace" \/ j < index'[b] => j <= i
      BY <2>a, <2>d, <2>0 DEF i
    <3> QED BY <2>0, <2>b, <2>d, <2>3, <3>3, <3>4, <3>7, <3>8 DEF TransactionInv
  <2>8. InspectedInv(b)'
    <3>1. \A j \in Batch(b) : j < i => directory[Destination(b, j)] # Subdirectory
      BY <2>0 DEF InspectedInv, i
    <3>2. directory[Destination(b, i)] # Subdirectory
      BY <1>2 DEF i
    <3>3. \A j \in Batch(b) : j <= i => directory[Destination(b, j)] # Subdirectory
      BY <2>a, <2>0, <3>1, <3>2 DEF i
    <3>4. \A j \in Batch(b) : pc'[b] = "replace" \/ j < index'[b] => j <= i
      BY <2>a, <2>d, <2>0 DEF i
    <3> QED BY <2>b, <2>d, <2>3, <3>3, <3>4 DEF InspectedInv, Subdirectory
  <2> QED BY <2>0, <2>1, <2>2, <2>b, <2>d, <2>4, <2>5, <2>6, <2>7, <2>8, OwnStep DEF OwnConclusions, Reserving
<1> QED BY <1>1, <1>2 DEF InspectDestination


-----------------------------------------------------------------------------
(* Steps that replace a file, or undo it: each changes one record, one     *)
(* entry of the directory and one file of the staging directory.           *)

OneRecord(b, i) ==
    /\ OnlyRecord(b, i)
    /\ directory' \in [Entries -> Contents]
    /\ \A e \in Entries : e # Destination(b, i) => directory'[e] = directory[e]
    /\ directory'[Destination(b, i)] # Subdirectory
    /\ new' \in [Nonces -> [Positions -> Contents \ {Subdirectory}]]
    /\ old' \in [Nonces -> [Positions -> Contents \ {Subdirectory}]]
    /\ \A d \in Nonces : d # nonce[b] => new'[d] = new[d] /\ old'[d] = old[d]
    /\ \A j \in Positions : j # i => new'[nonce[b]][j] = new[nonce[b]][j]
    /\ \A j \in Positions : j # i => old'[nonce[b]][j] = old[nonce[b]][j]
    /\ reserved' = reserved /\ nonce' = nonce /\ incomplete' = incomplete
    /\ files' = files /\ before' = before /\ latest' = latest /\ alone' = alone /\ found' = found

\* The other records of the build say what they said.
LEMMA OtherRecords ==
    ASSUME Types, NEW b \in Builds, NamesInv(b), pc[b] \in {"replace", "rollback"},
           NEW i \in Batch(b), OneRecord(b, i)
    PROVE  /\ Batch(b)' = Batch(b) /\ \A j : Destination(b, j)' = Destination(b, j)
           /\ \A j \in Batch(b) : j # i =>
                /\ replacement'[b][j] = replacement[b][j]
                /\ directory'[Destination(b, j)] = directory[Destination(b, j)]
                /\ new'[nonce[b]][j] = new[nonce[b]][j]
                /\ old'[nonce[b]][j] = old[nonce[b]][j]
           /\ \A j \in Batch(b) : j # i => (Settled(b, j)' <=> Settled(b, j))
           /\ \A j \in Batch(b) : j # i => (RecordInv(b, j) => RecordInv(b, j)')
           /\ Elsewhere(b) => Elsewhere(b)'
<1>1. Batch(b)' = Batch(b) /\ \A j : Destination(b, j)' = Destination(b, j)
  BY DEF OneRecord, Batch, Destination
<1>2. Batch(b) \subseteq Positions /\ \A j \in Batch(b) : Destination(b, j) \in Entries
  BY BatchFacts DEF Types
<1>3. \A j \in Batch(b) : j # i => Destination(b, j) # Destination(b, i)
  BY DEF NamesInv
<1>4. \A j \in Batch(b) : j # i =>
         /\ replacement'[b][j] = replacement[b][j]
         /\ directory'[Destination(b, j)] = directory[Destination(b, j)]
         /\ new'[nonce[b]][j] = new[nonce[b]][j]
         /\ old'[nonce[b]][j] = old[nonce[b]][j]
  BY <1>2, <1>3 DEF OneRecord, OnlyRecord
<1>5. \A j \in Batch(b) : j # i => (Settled(b, j)' <=> Settled(b, j))
  BY <1>4 DEF Settled
<1>6. ASSUME NEW j \in Batch(b), j # i, RecordInv(b, j) PROVE RecordInv(b, j)'
  BY <1>1, <1>4, <1>5, <1>6 DEF RecordInv, OneRecord, Written, Absent
<1>7. ASSUME Elsewhere(b) PROVE Elsewhere(b)'
  <2>1. \A e \in Entries : (\A j \in Batch(b) : Destination(b, j) # e) => directory'[e] = directory[e]
    BY DEF OneRecord
  <2> QED BY <1>1, <1>7, <2>1 DEF Elsewhere, OneRecord
<1> QED BY <1>1, <1>4, <1>5, <1>6, <1>7

\* Such a step touches nothing of another build.
LEMMA OneRecordFrame ==
    ASSUME Types, NEW b \in Builds, NEW i \in Batch(b), OneRecord(b, i),
           pc' \in [Builds -> Places], index' \in [Builds -> Nat],
           outcome' \in [Builds -> {"none", "failed", "incomplete", "committed"}],
           \A c \in Builds : c # b => pc'[c] = pc[c] /\ index'[c] = index[c] /\ outcome'[c] = outcome[c]
    PROVE  Types' /\ OwnFrame(b)
<1>1. Types'
  BY DEF Types, OneRecord, OnlyRecord
<1>2. \A e \in Entries : directory'[e] = Subdirectory => directory[e] = Subdirectory
  BY DEF OneRecord
<1>3. \A c \in Builds : c # b => SameBuild(c)
  BY DEF OneRecord, OnlyRecord, SameBuild
<1> QED BY <1>1, <1>2, <1>3 DEF OwnFrame, OneRecord

LEMMA BackUpStep ==
    ASSUME PAInv, NEW b \in Builds, BackUp(b)
    PROVE  PAInv'
<1> USE DEF Untouchable, Staging, Batching
<1>i. PICK i : i = index[b]
  OBVIOUS
<1> DEFINE n == nonce[b]
<1>1. CASE Abort(b)
  BY <1>1, AbortStep DEF BackUp
<1>2. CASE /\ directory[Destination(b, i)] # Absent
           /\ old' = [old EXCEPT ![n][i] = directory[Destination(b, i)]]
           /\ directory' = [directory EXCEPT ![Destination(b, i)] = Absent]
           /\ replacement' = [replacement EXCEPT ![b][i].backed_up = TRUE]
           /\ UNCHANGED <<new, pc, index, outcome>>
  <2>0. /\ Types /\ PlaceInv(b) /\ NamesInv(b) /\ OrderInv(b) /\ StagingInv(b) /\ InspectedInv(b)
        /\ b \in Undisturbed => TransactionInv(b)
        /\ pc[b] = "replace" /\ i \in Batch(b) /\ outcome[b] = "none"
        /\ ~replacement[b][i].backed_up
    BY <1>i DEF PAInv, LocalInv, SharedInv, DirectoryInv, BackUp, PlaceInv
  <2>a. /\ Batch(b) = 1 .. Len(files[b]) /\ Len(files[b]) \in Nat /\ Batch(b) \subseteq Positions
        /\ n \in Nonces /\ i \in Positions /\ Destination(b, i) \in Entries
    BY <2>0, BatchFacts DEF Types
  <2>b. /\ new' = new /\ pc' = pc /\ index' = index /\ outcome' = outcome /\ reserved' = reserved
        /\ nonce' = nonce /\ files' = files /\ before' = before /\ latest' = latest /\ alone' = alone
        /\ found' = found /\ incomplete' = incomplete
    BY <1>2 DEF BackUp
  <2> DEFINE x == directory[Destination(b, i)]
  <2>c. x \in Contents \ {Subdirectory} /\ x # Absent
    BY <1>2, <2>0, <2>a DEF Types, InspectedInv
  <2>d. BackedUpBecomes(b, i, TRUE)
    BY <1>2 DEF BackedUpBecomes
  <2>e. old' = [old EXCEPT ![n][i] = x]
    BY <1>2
  <2> HIDE DEF n, x
  <2>f. /\ OnlyRecord(b, i) /\ replacement'[b][i].backed_up
        /\ replacement'[b][i].had_original = replacement[b][i].had_original
        /\ replacement'[b][i].installed = replacement[b][i].installed
    BY <2>0, <2>a, <2>d, SetBackedUp
  <2>g. /\ directory' \in [Entries -> Contents] /\ directory'[Destination(b, i)] = Absent
        /\ \A e \in Entries : e # Destination(b, i) => directory'[e] = directory[e]
    BY <1>2, <2>0, <2>a, ContentFacts DEF Types
  <2>h. /\ old' \in [Nonces -> [Positions -> Contents \ {Subdirectory}]]
        /\ old'[n][i] = x /\ \A j \in Positions : j # i => old'[n][j] = old[n][j]
        /\ \A d \in Nonces : d # n => old'[d] = old[d]
    <3>1. old \in [Nonces -> [Positions -> Contents \ {Subdirectory}]]
      BY <2>0 DEF Types
    <3> QED BY <2>a, <2>c, <2>e, <3>1
  <2>1. OneRecord(b, i)
    BY <2>0, <2>b, <2>f, <2>g, <2>h, ContentFacts DEF OneRecord, Types, n
  <2>2. Types' /\ OwnFrame(b)
    BY <2>0, <2>1, <2>b, OneRecordFrame DEF Types
  <2>3. /\ Batch(b)' = Batch(b) /\ \A j : Destination(b, j)' = Destination(b, j)
        /\ \A j \in Batch(b) : j # i =>
             /\ replacement'[b][j] = replacement[b][j]
             /\ directory'[Destination(b, j)] = directory[Destination(b, j)]
             /\ old'[n][j] = old[n][j]
        /\ \A j \in Batch(b) : j # i => (RecordInv(b, j) => RecordInv(b, j)')
        /\ Elsewhere(b) => Elsewhere(b)'
    BY <2>0, <2>1, OtherRecords DEF n
  <2>4. ~replacement[b][i].installed
    BY <1>i, <2>0, <2>a DEF OrderInv
  <2>5. PlaceInv(b)' /\ NamesInv(b)'
    BY <2>0, <2>b, <2>3 DEF PlaceInv, NamesInv
  <2>6. OrderInv(b)'
    <3>1. \A j \in Batch(b) : j > i => j # i
      BY <2>a, <2>0
    <3> QED BY <1>i, <2>0, <2>b, <2>3, <2>4, <2>f, <3>1 DEF OrderInv, Preparing, Starting
  <2>7. StagingInv(b)'
    <3>1. \A j \in Batch(b) : replacement'[b][j].backed_up => old'[n][j] # Absent
      BY <2>0, <2>3, <2>c, <2>h DEF StagingInv, n
    <3> QED BY <2>0, <2>b, <2>3, <3>1 DEF StagingInv, Written, Absent, n
  <2>8. InspectedInv(b)'
    BY <2>0, <2>b, <2>3, <2>g, ContentFacts DEF InspectedInv, Subdirectory
  <2>9. ASSUME b \in Undisturbed PROVE TransactionInv(b)'
    <3>0. TransactionInv(b) /\ \A j \in Batch(b) : RecordInv(b, j)
      BY <2>0, <2>9 DEF TransactionInv
    <3>1. x = before[b][Destination(b, i)]
      BY <2>0, <2>4, <3>0 DEF RecordInv, Settled, x
    <3>2. RecordInv(b, i)'
      BY <2>0, <2>3, <2>4, <2>b, <2>f, <2>g, <2>h, <3>1 DEF RecordInv, Settled, Absent, n
    <3>3. \A j \in Batch(b) : RecordInv(b, j)'
      BY <2>3, <3>0, <3>2
    <3>4. \A j \in Batch(b) : replacement'[b][j].had_original <=> before[b][Destination(b, j)] # Absent
      <4>1. \A j \in Batch(b) : replacement[b][j].had_original <=> before[b][Destination(b, j)] # Absent
        BY <2>0, <3>0 DEF TransactionInv
      <4> QED BY <2>3, <2>f, <4>1
    <3> QED BY <2>0, <2>3, <2>b, <3>0, <3>3, <3>4 DEF TransactionInv, Absent
  <2> QED BY <2>0, <2>2, <2>5, <2>6, <2>7, <2>8, <2>9, <2>b, OwnStep DEF OwnConclusions, Reserving
<1> QED BY <1>i, <1>1, <1>2 DEF BackUp


LEMMA InstallStep ==
    ASSUME PAInv, NEW b \in Builds, Install(b)
    PROVE  PAInv'
<1> USE DEF Untouchable, Staging, Batching
<1>i. PICK i : i = index[b]
  OBVIOUS
<1> DEFINE n == nonce[b]
<1>1. CASE Abort(b)
  BY <1>1, AbortStep DEF Install
<1>2. CASE /\ directory' = [directory EXCEPT ![Destination(b, i)] = new[n][i]]
           /\ new' = [new EXCEPT ![n][i] = Absent]
           /\ replacement' = [replacement EXCEPT ![b][i].installed = TRUE]
           /\ Advance(b, "replace", "cleanup")
           /\ IF i = Len(files[b]) THEN Returns(b, "committed") ELSE UNCHANGED outcome
           /\ UNCHANGED old
  <2>0. /\ Types /\ PlaceInv(b) /\ NamesInv(b) /\ OrderInv(b) /\ StagingInv(b) /\ InspectedInv(b)
        /\ b \in Undisturbed => TransactionInv(b)
        /\ pc[b] = "replace" /\ i \in Batch(b) /\ outcome[b] = "none"
        /\ replacement[b][i].had_original => replacement[b][i].backed_up
    BY <1>i DEF PAInv, LocalInv, SharedInv, DirectoryInv, Install, PlaceInv
  <2>a. /\ Batch(b) = 1 .. Len(files[b]) /\ Len(files[b]) \in Nat /\ Batch(b) \subseteq Positions
        /\ n \in Nonces /\ i \in Positions /\ Destination(b, i) \in Entries
    BY <2>0, BatchFacts DEF Types
  <2>b. /\ old' = old /\ reserved' = reserved
        /\ nonce' = nonce /\ files' = files /\ before' = before /\ latest' = latest /\ alone' = alone
        /\ found' = found /\ incomplete' = incomplete
    BY <1>2 DEF Install
  <2>c. new[n][i] = Written(b, i) /\ Written(b, i) \in Contents \ {Subdirectory} /\ Written(b, i) # Absent
    BY <1>i, <2>0, <2>a, ContentFacts DEF StagingInv
  <2>d. InstalledBecomes(b, i, TRUE)
    BY <1>2 DEF InstalledBecomes
  <2>e. /\ pc' \in [Builds -> Places] /\ index' \in [Builds -> Nat]
        /\ \A c \in Builds : c # b => pc'[c] = pc[c] /\ index'[c] = index[c]
        /\ \/ i < Len(files[b]) /\ i + 1 \in Batch(b) /\ index'[b] = i + 1 /\ pc'[b] = "replace"
           \/ i = Len(files[b]) /\ index'[b] = 1 /\ pc'[b] = "cleanup" /\ 1 \in Batch(b)
    <3>1. "replace" \in Places /\ "cleanup" \in Places
      BY DEF Places, Reserving
    <3> QED BY <1>i, <1>2, <2>0, <3>1, AdvanceFacts
  <2> HIDE DEF n
  <2>f. /\ OnlyRecord(b, i) /\ replacement'[b][i].installed
        /\ replacement'[b][i].had_original = replacement[b][i].had_original
        /\ replacement'[b][i].backed_up = replacement[b][i].backed_up
    BY <2>0, <2>a, <2>d, SetInstalled
  <2>g. /\ directory' \in [Entries -> Contents] /\ directory'[Destination(b, i)] = Written(b, i)
        /\ \A e \in Entries : e # Destination(b, i) => directory'[e] = directory[e]
    BY <1>2, <2>0, <2>a, <2>c DEF Types
  <2>h. /\ new' \in [Nonces -> [Positions -> Contents \ {Subdirectory}]]
        /\ \A j \in Positions : j # i => new'[n][j] = new[n][j]
        /\ \A d \in Nonces : d # n => new'[d] = new[d]
    <3>1. new \in [Nonces -> [Positions -> Contents \ {Subdirectory}]]
      BY <2>0 DEF Types
    <3> QED BY <1>2, <2>a, <3>1, ContentFacts
  <2>k. /\ outcome' \in [Builds -> {"none", "failed", "incomplete", "committed"}]
        /\ \A c \in Builds : c # b => outcome'[c] = outcome[c]
        /\ pc'[b] = "replace" => outcome'[b] = "none"
        /\ pc'[b] = "cleanup" => outcome'[b] = "committed"
    <3>1. i < Len(files[b]) => outcome' = outcome
      BY <1>2, <2>a, <2>0
    <3>2. i = Len(files[b]) => outcome' = [outcome EXCEPT ![b] = "committed"]
      BY <1>2 DEF Returns
    <3>3. outcome \in [Builds -> {"none", "failed", "incomplete", "committed"}]
      BY <2>0 DEF Types
    <3> QED BY <2>0, <2>e, <3>1, <3>2, <3>3
  <2>1. OneRecord(b, i)
    BY <2>0, <2>b, <2>c, <2>f, <2>g, <2>h DEF OneRecord, Types, n
  <2>2. Types' /\ OwnFrame(b)
    BY <2>0, <2>1, <2>e, <2>k, OneRecordFrame
  <2>3. /\ Batch(b)' = Batch(b) /\ \A j : Destination(b, j)' = Destination(b, j)
        /\ \A j \in Batch(b) : j # i =>
             /\ replacement'[b][j] = replacement[b][j]
             /\ directory'[Destination(b, j)] = directory[Destination(b, j)]
             /\ new'[n][j] = new[n][j]
        /\ \A j \in Batch(b) : j # i => (RecordInv(b, j) => RecordInv(b, j)')
        /\ Elsewhere(b) => Elsewhere(b)'
    BY <2>0, <2>1, OtherRecords DEF n
  <2>5. PlaceInv(b)' /\ NamesInv(b)'
    <3>1. index'[b] \in Batch(b) /\ index'[b] \in 0 .. Len(files'[b])
      BY <2>a, <2>b, <2>e
    <3>2. PlaceInv(b)'
      BY <2>0, <2>b, <2>e, <2>k, <2>3, <3>1 DEF PlaceInv, Preparing, Starting
    <3> QED BY <2>0, <2>b, <2>e, <2>3, <3>2 DEF NamesInv
  <2>6. OrderInv(b)'
    <3>1. ASSUME pc'[b] = "replace", NEW j \in Batch(b)
          PROVE  /\ j < index'[b] => replacement'[b][j].installed
                 /\ j >= index'[b] => ~replacement'[b][j].installed
                 /\ j > index'[b] => ~replacement'[b][j].backed_up
      <4>1. index'[b] = i + 1
        BY <2>e, <3>1
      <4>2. CASE j = i
        BY <2>a, <2>f, <4>1, <4>2
      <4>3. CASE j < i
        BY <1>i, <2>0, <2>a, <2>3, <4>1, <4>3 DEF OrderInv
      <4>4. CASE j > i
        BY <1>i, <2>0, <2>a, <2>3, <4>1, <4>4 DEF OrderInv
      <4> QED BY <2>0, <2>a, <4>2, <4>3, <4>4
    <3> QED BY <2>e, <2>k, <2>3, <3>1 DEF OrderInv, Preparing, Starting
  <2>7. StagingInv(b)'
    <3>1. \A j \in Batch(b) : replacement'[b][j].backed_up => old[n][j] # Absent
      BY <2>0, <2>3, <2>f DEF StagingInv, n
    <3>2. pc'[b] = "replace" => \A j \in Batch(b) : j >= index'[b] => j # i /\ j >= index[b]
      BY <1>i, <2>0, <2>a, <2>e
    <3> QED BY <2>0, <2>b, <2>e, <2>3, <3>1, <3>2 DEF StagingInv, Written, Absent, n
  <2>8. InspectedInv(b)'
    BY <2>0, <2>e, <2>3, <2>c, <2>g DEF InspectedInv, Subdirectory
  <2>9. ASSUME b \in Undisturbed PROVE TransactionInv(b)'
    <3>0. TransactionInv(b) /\ \A j \in Batch(b) : RecordInv(b, j)
      BY <2>0, <2>9 DEF TransactionInv
    <3>1. replacement[b][i].backed_up \/ before[b][Destination(b, i)] = Absent
      BY <2>0, <3>0 DEF TransactionInv
    <3>2. RecordInv(b, i)'
      BY <2>0, <2>3, <2>b, <2>f, <2>g, <3>0, <3>1 DEF RecordInv, Settled, Absent, Written
    <3>3. \A j \in Batch(b) : RecordInv(b, j)'
      BY <2>3, <3>0, <3>2
    <3>4. \A j \in Batch(b) : replacement'[b][j].had_original <=> before[b][Destination(b, j)] # Absent
      <4>1. \A j \in Batch(b) : replacement[b][j].had_original <=> before[b][Destination(b, j)] # Absent
        BY <2>0, <3>0 DEF TransactionInv
      <4> QED BY <2>3, <2>f, <4>1
    <3>5. pc'[b] = "cleanup" => \A j \in Batch(b) : replacement'[b][j].installed
      <4>1. pc'[b] = "cleanup" => \A j \in Batch(b) : j = i \/ j < index[b]
        BY <1>i, <2>a, <2>e
      <4> QED BY <2>0, <2>3, <2>f, <4>1 DEF OrderInv
    <3>6. pc'[b] = "cleanup" => \A j \in Batch(b) : (directory[Destination(b, j)] = Written(b, j))'
      BY <2>3, <3>3, <3>5 DEF RecordInv
    <3> QED BY <2>e, <2>k, <2>3, <2>b, <3>0, <3>3, <3>4, <3>6 DEF TransactionInv, Absent
  <2>z. pc'[b] \in Reserving
    BY <2>e DEF Reserving
  <2> QED BY <2>0, <2>2, <2>5, <2>6, <2>7, <2>8, <2>9, <2>b, <2>z, OwnStep DEF OwnConclusions, Reserving
<1> QED BY <1>i, <1>1, <1>2 DEF Install


LEMMA RemoveInstalledStep ==
    ASSUME PAInv, NEW b \in Builds, RemoveInstalled(b)
    PROVE  PAInv'
<1> USE DEF Untouchable, Staging, Batching
<1>i. PICK i : i = index[b]
  OBVIOUS
<1> DEFINE n == nonce[b]
<1>1. CASE RecordFailure(b)
  BY <1>1, RollBackGoesOn DEF RemoveInstalled, RecordFailure
<1>2. CASE /\ directory' = [directory EXCEPT ![Destination(b, i)] = Absent]
           /\ replacement' = [replacement EXCEPT ![b][i].installed = FALSE]
           /\ UNCHANGED <<new, old, index, incomplete>>
  <2>0. /\ Types /\ PlaceInv(b) /\ NamesInv(b) /\ OrderInv(b) /\ StagingInv(b)
        /\ b \in Undisturbed => TransactionInv(b)
        /\ pc[b] = "rollback" /\ i # 0 /\ outcome[b] = "failed"
        /\ replacement[b][i].installed
    BY <1>i DEF PAInv, LocalInv, SharedInv, DirectoryInv, RemoveInstalled, PlaceInv
  <2>a. /\ Batch(b) = 1 .. Len(files[b]) /\ Len(files[b]) \in Nat /\ Batch(b) \subseteq Positions
        /\ i \in Batch(b) /\ i \in Positions /\ Destination(b, i) \in Entries
    BY <1>i, <2>0, BatchFacts DEF Types, PlaceInv
  <2>b. /\ new' = new /\ old' = old /\ pc' = pc /\ index' = index /\ outcome' = outcome
        /\ reserved' = reserved /\ nonce' = nonce /\ files' = files /\ before' = before
        /\ latest' = latest /\ alone' = alone /\ found' = found /\ incomplete' = incomplete
    BY <1>2 DEF RemoveInstalled
  <2>d. InstalledBecomes(b, i, FALSE)
    BY <1>2 DEF InstalledBecomes
  <2> HIDE DEF n
  <2>f. /\ OnlyRecord(b, i) /\ ~replacement'[b][i].installed
        /\ replacement'[b][i].backed_up = replacement[b][i].backed_up
    BY <2>0, <2>a, <2>d, SetInstalled
  <2>g. /\ directory' \in [Entries -> Contents] /\ directory'[Destination(b, i)] = Absent
        /\ \A e \in Entries : e # Destination(b, i) => directory'[e] = directory[e]
    BY <1>2, <2>0, <2>a, ContentFacts DEF Types
  <2>1. OneRecord(b, i)
    BY <2>0, <2>b, <2>f, <2>g, ContentFacts DEF OneRecord, Types
  <2>2. Types' /\ OwnFrame(b)
    BY <2>0, <2>a, <2>1, <2>b, OneRecordFrame DEF Types
  <2>3. /\ Batch(b)' = Batch(b) /\ \A j : Destination(b, j)' = Destination(b, j)
        /\ \A j \in Batch(b) : j # i => replacement'[b][j] = replacement[b][j]
        /\ \A j \in Batch(b) : j # i => (Settled(b, j)' <=> Settled(b, j))
        /\ \A j \in Batch(b) : j # i => (RecordInv(b, j) => RecordInv(b, j)')
        /\ Elsewhere(b) => Elsewhere(b)'
    BY <2>0, <2>a, <2>1, OtherRecords
  <2>5. PlaceInv(b)' /\ NamesInv(b)'
    BY <2>0, <2>b, <2>3 DEF PlaceInv, NamesInv
  <2>6. OrderInv(b)'
    <3>1. \A j \in Batch(b) : j > index[b] => j # i
      BY <1>i, <2>a
    <3> QED BY <2>0, <2>b, <2>3, <3>1 DEF OrderInv, Preparing, Starting
  <2>7. StagingInv(b)'
    <3>1. \A j \in Batch(b) : replacement'[b][j].backed_up => old[nonce[b]][j] # Absent
      BY <2>0, <2>3, <2>f DEF StagingInv
    <3> QED BY <2>0, <2>b, <2>3, <3>1 DEF StagingInv, Absent
  <2>8. InspectedInv(b)'
    BY <2>0, <2>b DEF InspectedInv
  <2>9. ASSUME b \in Undisturbed PROVE TransactionInv(b)'
    <3>0. TransactionInv(b) /\ \A j \in Batch(b) : RecordInv(b, j)
      BY <2>0, <2>9 DEF TransactionInv
    <3>1. replacement[b][i].backed_up \/ before[b][Destination(b, i)] = Absent
      BY <2>0, <2>a, <3>0 DEF RecordInv
    <3>2. RecordInv(b, i)'
      BY <2>0, <2>a, <2>3, <2>b, <2>f, <2>g, <3>0, <3>1 DEF RecordInv, Settled, Absent
    <3>3. \A j \in Batch(b) : RecordInv(b, j)'
      BY <2>3, <3>0, <3>2
    <3> QED BY <2>0, <2>3, <2>b, <3>0, <3>3 DEF TransactionInv
  <2> QED BY <2>0, <2>2, <2>5, <2>6, <2>7, <2>8, <2>9, <2>b, OwnStep DEF OwnConclusions, Reserving
<1> QED BY <1>i, <1>1, <1>2 DEF RemoveInstalled

LEMMA RestoreBackupStep ==
    ASSUME PAInv, NEW b \in Builds, RestoreBackup(b)
    PROVE  PAInv'
<1> USE DEF Untouchable, Staging, Batching
<1>i. PICK i : i = index[b]
  OBVIOUS
<1> DEFINE n == nonce[b]
<1>1. CASE RecordFailure(b)
  BY <1>1, RollBackGoesOn DEF RestoreBackup, RecordFailure
<1>2. CASE /\ directory' = [directory EXCEPT ![Destination(b, i)] = old[n][i]]
           /\ old' = [old EXCEPT ![n][i] = Absent]
           /\ replacement' = [replacement EXCEPT ![b][i].backed_up = FALSE]
           /\ At(b, i - 1)
           /\ UNCHANGED <<new, incomplete>>
  <2>0. /\ Types /\ PlaceInv(b) /\ NamesInv(b) /\ OrderInv(b) /\ StagingInv(b)
        /\ b \in Undisturbed => TransactionInv(b)
        /\ pc[b] = "rollback" /\ i # 0 /\ outcome[b] = "failed"
        /\ ~replacement[b][i].installed /\ replacement[b][i].backed_up
    BY <1>i DEF PAInv, LocalInv, SharedInv, DirectoryInv, RestoreBackup, PlaceInv
  <2>a. /\ Batch(b) = 1 .. Len(files[b]) /\ Len(files[b]) \in Nat /\ Batch(b) \subseteq Positions
        /\ i \in Batch(b) /\ i \in Positions /\ Destination(b, i) \in Entries /\ n \in Nonces
    BY <1>i, <2>0, BatchFacts DEF Types, PlaceInv
  <2>b. /\ new' = new /\ pc' = pc /\ outcome' = outcome
        /\ reserved' = reserved /\ nonce' = nonce /\ files' = files /\ before' = before
        /\ latest' = latest /\ alone' = alone /\ found' = found /\ incomplete' = incomplete
    BY <1>2 DEF RestoreBackup
  <2> DEFINE x == old[n][i]
  <2>c. x \in Contents \ {Subdirectory}
    BY <2>0, <2>a DEF Types
  <2>d. BackedUpBecomes(b, i, FALSE)
    BY <1>2 DEF BackedUpBecomes
  <2>e. /\ index' \in [Builds -> Nat] /\ index'[b] = i - 1
        /\ \A c \in Builds : c # b => index'[c] = index[c]
    <3>1. i - 1 \in Nat
      BY <2>a
    <3> QED BY <1>2, <2>0, <3>1 DEF At, Types
  <2>j. directory' = [directory EXCEPT ![Destination(b, i)] = x]
    BY <1>2
  <2> HIDE DEF n, x
  <2>f. /\ OnlyRecord(b, i) /\ ~replacement'[b][i].backed_up
        /\ replacement'[b][i].installed = replacement[b][i].installed
    BY <2>0, <2>a, <2>d, SetBackedUp
  <2>g. /\ directory' \in [Entries -> Contents] /\ directory'[Destination(b, i)] = x
        /\ \A e \in Entries : e # Destination(b, i) => directory'[e] = directory[e]
    BY <2>j, <2>0, <2>a, <2>c DEF Types
  <2>h. /\ old' \in [Nonces -> [Positions -> Contents \ {Subdirectory}]]
        /\ \A j \in Positions : j # i => old'[n][j] = old[n][j]
        /\ \A d \in Nonces : d # n => old'[d] = old[d]
    <3>1. old \in [Nonces -> [Positions -> Contents \ {Subdirectory}]]
      BY <2>0 DEF Types
    <3> QED BY <1>2, <2>a, <3>1, ContentFacts
  <2>1. OneRecord(b, i)
    BY <2>0, <2>b, <2>c, <2>f, <2>g, <2>h DEF OneRecord, Types, n
  <2>2. Types' /\ OwnFrame(b)
    BY <2>0, <2>a, <2>1, <2>b, <2>e, OneRecordFrame DEF Types
  <2>3. /\ Batch(b)' = Batch(b) /\ \A j : Destination(b, j)' = Destination(b, j)
        /\ \A j \in Batch(b) : j # i => replacement'[b][j] = replacement[b][j] /\ old'[n][j] = old[n][j]
        /\ \A j \in Batch(b) : j # i => (Settled(b, j)' <=> Settled(b, j))
        /\ \A j \in Batch(b) : j # i => (RecordInv(b, j) => RecordInv(b, j)')
        /\ Elsewhere(b) => Elsewhere(b)'
    BY <2>0, <2>a, <2>1, OtherRecords DEF n
  <2>4. Settled(b, i)'
    BY <2>0, <2>f DEF Settled
  <2>5. PlaceInv(b)' /\ NamesInv(b)'
    <3>1. index'[b] \in 0 .. Len(files'[b])
      BY <2>a, <2>b, <2>e
    <3>2. PlaceInv(b)'
      BY <2>0, <2>b, <2>3, <3>1 DEF PlaceInv, Preparing, Starting
    <3> QED BY <2>0, <2>b, <2>3, <3>2 DEF NamesInv
  <2>6. OrderInv(b)'
    <3>1. \A j \in Batch(b) : j > index'[b] => j = i \/ j > index[b]
      BY <1>i, <2>a, <2>e
    <3>2. ASSUME ~incomplete[b], NEW j \in Batch(b), j > index'[b] PROVE Settled(b, j)'
      BY <2>0, <2>3, <2>4, <3>1, <3>2 DEF OrderInv
    <3> QED BY <2>0, <2>b, <2>3, <3>2 DEF OrderInv, Preparing, Starting
  <2>7. StagingInv(b)'
    <3>1. \A j \in Batch(b) : replacement'[b][j].backed_up => old'[n][j] # Absent
      BY <2>0, <2>3, <2>f DEF StagingInv, n
    <3> QED BY <2>0, <2>b, <2>3, <3>1 DEF StagingInv, Absent, n
  <2>8. InspectedInv(b)'
    BY <2>0, <2>b DEF InspectedInv
  <2>9. ASSUME b \in Undisturbed PROVE TransactionInv(b)'
    <3>0. TransactionInv(b) /\ \A j \in Batch(b) : RecordInv(b, j)
      BY <2>0, <2>9 DEF TransactionInv
    <3>1. x = before[b][Destination(b, i)]
      BY <2>0, <2>a, <3>0 DEF RecordInv, x, n
    <3>2. RecordInv(b, i)'
      BY <2>3, <2>4, <2>b, <2>g, <3>1 DEF RecordInv, Settled
    <3>3. \A j \in Batch(b) : RecordInv(b, j)'
      BY <2>3, <3>0, <3>2
    <3> QED BY <2>0, <2>3, <2>b, <3>0, <3>3 DEF TransactionInv
  <2> QED BY <2>0, <2>2, <2>5, <2>6, <2>7, <2>8, <2>9, <2>b, OwnStep DEF OwnConclusions, Reserving
<1> QED BY <1>i, <1>1, <1>2 DEF RestoreBackup

LEMMA SkipReplacementStep ==
    ASSUME PAInv, NEW b \in Builds, SkipReplacement(b)
    PROVE  PAInv'
BY RollBackGoesOn DEF SkipReplacement, Settled


-----------------------------------------------------------------------------
(* Steps before there is a staging directory, and the one that removes it. *)

\* What a step leaves of the other builds when it takes no file of theirs.
LEMMA OthersFrame ==
    ASSUME Types, NEW c \in Builds, SameBuild(c), new' = new, old' = old, directory' = directory,
           StagingInv(c), InspectedInv(c)
    PROVE  StagingInv(c)' /\ InspectedInv(c)'
<1>1. Batch(c)' = Batch(c) /\ \A i : Destination(c, i)' = Destination(c, i)
  BY DEF SameBuild, Batch, Destination
<1> QED BY <1>1 DEF StagingInv, InspectedInv, SameBuild, Written, Absent, Subdirectory

\* A build that has no staging directory yet, and may reserve one.
StartFrame(b) ==
    /\ directory' = directory /\ new' = new /\ old' = old /\ replacement' = replacement
    /\ files' = files /\ before' = before /\ latest' = latest /\ alone' = alone /\ found' = found
    /\ index' = index /\ incomplete' = incomplete
    /\ nonce' \in [Builds -> Nonces]
    /\ \A c \in Builds : c # b => nonce'[c] = nonce[c]
    /\ \/ reserved' = reserved /\ \E there \in {"reserve", "crashed"} : Goto(b, there) /\ outcome' = outcome
       \/ reserved' = reserved /\ Stop(b)
       \/ /\ nonce[b] \notin reserved /\ reserved' = reserved \union {nonce[b]} /\ nonce' = nonce
          /\ Goto(b, "probe") /\ outcome' = outcome

LEMMA StartStep ==
    ASSUME PAInv, NEW b \in Builds, pc[b] \in {"lower", "reserve"}, StartFrame(b)
    PROVE  PAInv'
<1>0. /\ Types /\ PlaceInv(b) /\ NamesInv(b) /\ OrderInv(b) /\ StagingInv(b)
      /\ b \in Undisturbed => TransactionInv(b)
      /\ outcome[b] = "none" /\ Active(b)
  BY DEF PAInv, LocalInv, SharedInv, DirectoryInv, PlaceInv, Preparing, Starting, Active, Ended
<1>1. /\ pc' \in [Builds -> Places]
      /\ outcome' \in [Builds -> {"none", "failed", "incomplete", "committed"}]
      /\ \A c \in Builds : c # b => pc'[c] = pc[c] /\ outcome'[c] = outcome[c]
      /\ \/ pc'[b] = "reserve" /\ outcome'[b] = "none" /\ reserved' = reserved
         \/ pc'[b] = "crashed" /\ outcome'[b] = "none" /\ reserved' = reserved
         \/ pc'[b] = "returned" /\ outcome'[b] = "failed" /\ reserved' = reserved
         \/ /\ pc'[b] = "probe" /\ outcome'[b] = "none" /\ nonce' = nonce
            /\ nonce[b] \notin reserved /\ reserved' = reserved \union {nonce[b]}
  <2>1. "reserve" \in Places /\ "crashed" \in Places /\ "returned" \in Places /\ "probe" \in Places
    BY DEF Places, Preparing, Starting, Ended
  <2>2. /\ pc \in [Builds -> Places] /\ pc[b] \in {"lower", "reserve"}
        /\ outcome \in [Builds -> {"none", "failed", "incomplete", "committed"}]
    BY <1>0 DEF Types
  <2>3. CASE reserved' = reserved /\ \E there \in {"reserve", "crashed"} : Goto(b, there) /\ outcome' = outcome
    BY <1>0, <2>1, <2>2, <2>3 DEF Goto
  <2>4. CASE reserved' = reserved /\ Stop(b)
    BY <2>1, <2>2, <2>4 DEF Goto, Returns, Stop
  <2>5. CASE /\ nonce[b] \notin reserved /\ reserved' = reserved \union {nonce[b]} /\ nonce' = nonce
             /\ Goto(b, "probe") /\ outcome' = outcome
    BY <1>0, <2>1, <2>2, <2>5 DEF Goto
  <2> QED BY <2>3, <2>4, <2>5 DEF StartFrame
<1>2. Types'
  <2>1. reserved' \subseteq Nonces
    BY <1>0, <1>1 DEF Types
  <2> QED BY <1>0, <1>1, <2>1 DEF Types, StartFrame
<1>3. \A c \in Builds : c # b => SameBuild(c)
  BY <1>1 DEF SameBuild, StartFrame
<1>4. /\ Batch(b)' = Batch(b) /\ Batch(b) \subseteq Positions
      /\ \A i : Destination(b, i)' = Destination(b, i) /\ (Settled(b, i)' <=> Settled(b, i))
      /\ \A i \in Positions : Settled(b, i)
  BY <1>0, BatchFacts DEF StartFrame, Types, Batch, Destination, Settled, OrderInv, Preparing, Starting
<1>5. PlaceInv(b)'
  <2>1. index'[b] = index[b] /\ files'[b] = files[b] /\ Batch(b) # {} /\ index[b] = 1
    BY <1>0 DEF StartFrame, PlaceInv, Starting
  <2> QED BY <1>1, <1>4, <2>1 DEF PlaceInv, Preparing, Starting, Reserving
<1>6. NamesInv(b)'
  BY <1>0, <1>1, <1>4 DEF NamesInv, StartFrame
<1>7. OrderInv(b)'
  BY <1>0, <1>1, <1>4 DEF OrderInv
<1>8. LocalInv'
  BY <1>3, <1>5, <1>6, <1>7, LocalFrame DEF LocalInv, PAInv
<1>9. ~Owner(b) /\ (Owner(b)' => pc'[b] = "probe")
  <2>1. \A i \in Batch(b) : ~replacement'[b][i].backed_up
    BY <1>0, <1>4 DEF Settled, StartFrame
  <2> QED BY <1>0, <1>1, <1>4, <2>1 DEF Owner, Reserving
<1>10. \A c \in Builds : c # b => (Owner(c)' <=> Owner(c))
  BY <1>3 DEF Owner, SameBuild, Batch
<1>11. OwnersInv'
  <2>1. ASSUME NEW c \in Builds, Owner(c)' PROVE nonce'[c] \in reserved'
    <3>1. CASE c = b
      BY <1>1, <1>9, <2>1, <3>1
    <3>2. CASE c # b
      <4>1. nonce[c] \in reserved
        BY <1>10, <2>1, <3>2 DEF PAInv, SharedInv, OwnersInv
      <4> QED BY <1>1, <3>2, <4>1 DEF StartFrame
    <3> QED BY <3>1, <3>2
  <2>2. ASSUME NEW a \in Builds, NEW c \in Builds, Owner(a)', Owner(c)', nonce'[a] = nonce'[c] PROVE a = c
    <3>1. ASSUME NEW e \in Builds, e # b, Owner(e)', Owner(b)' PROVE nonce'[e] # nonce'[b]
      <4>1. nonce[e] \in reserved
        BY <1>10, <3>1 DEF PAInv, SharedInv, OwnersInv
      <4> QED BY <1>1, <1>9, <3>1, <4>1 DEF StartFrame
    <3>2. CASE a # b /\ c # b
      <4>1. nonce[a] = nonce[c]
        BY <2>2, <3>2 DEF StartFrame
      <4> QED BY <1>10, <2>2, <3>2, <4>1 DEF PAInv, SharedInv, OwnersInv
    <3> QED BY <2>2, <3>1, <3>2
  <2> QED BY <2>1, <2>2 DEF OwnersInv
<1>12. \A c \in Builds : StagingInv(c)' /\ InspectedInv(c)'
  <2>1. StagingInv(b)' /\ InspectedInv(b)'
    BY <1>0, <1>1, <1>4 DEF StagingInv, InspectedInv, Settled
  <2>2. \A c \in Builds : c # b => StagingInv(c)' /\ InspectedInv(c)'
    BY <1>0, <1>3, OthersFrame DEF StartFrame, PAInv, SharedInv
  <2> QED BY <2>1, <2>2
<1>13. StagingReleased'
  <2>1. ASSUME NEW d \in (reserved \ found)'
        PROVE  \E c \in Builds :
                  /\ nonce'[c] = d
                  /\ \/ Active(c)' /\ pc'[c] \notin {"lower", "reserve"}
                     \/ pc'[c] \in {"crashed", "residue"}
                     \/ outcome'[c] = "incomplete"
    <3>1. CASE d \in reserved
      <4>1. PICK c \in Builds : /\ nonce[c] = d
                                /\ \/ Active(c) /\ pc[c] \notin {"lower", "reserve"}
                                   \/ pc[c] \in {"crashed", "residue"}
                                   \/ outcome[c] = "incomplete"
        BY <2>1, <3>1 DEF PAInv, SharedInv, StagingReleased, StartFrame
      <4>2. c # b
        BY <1>0, <4>1
      <4> QED BY <1>1, <4>1, <4>2 DEF StartFrame, Active
    <3>2. CASE d \notin reserved
      <4>1. pc'[b] = "probe" /\ nonce'[b] = d
        BY <1>1, <2>1, <3>2
      <4>2. Active(b)'
        BY <4>1 DEF Active, Ended
      <4> QED BY <4>1, <4>2
    <3> QED BY <3>1, <3>2
  <2> QED BY <2>1 DEF StagingReleased
<1>14. EmptyInv'
  BY <1>1 DEF EmptyInv, StartFrame, PAInv, SharedInv, Absent
<1>15. AloneInv'
  <2>1. \A c \in Builds : c # b => (Active(c)' <=> Active(c)) /\ pc'[c] = pc[c]
    BY <1>3 DEF SameBuild, Active
  <2>2. Undisturbed' = Undisturbed
    BY DEF Undisturbed, StartFrame
  <2>3. \A c \in Undisturbed : c = b
    BY <1>0 DEF PAInv, DirectoryInv, AloneInv
  <2>4. \A c \in latest' : pc'[c] # "idle"
    BY <1>0, <1>1, <2>1 DEF PAInv, DirectoryInv, AloneInv, StartFrame, Types
  <2>5. \A c \in Undisturbed' : \A a \in Builds : a # c => ~Active(a)'
    BY <2>1, <2>2, <2>3 DEF PAInv, DirectoryInv, AloneInv
  <2> QED BY <2>4, <2>5 DEF AloneInv, PAInv, DirectoryInv, StartFrame
<1>16. \A c \in Undisturbed' : TransactionInv(c)'
  <2>1. Undisturbed' = Undisturbed
    BY DEF Undisturbed, StartFrame
  <2>2. \A c \in Undisturbed : c = b
    BY <1>0 DEF PAInv, DirectoryInv, AloneInv
  <2>3. ASSUME b \in Undisturbed PROVE TransactionInv(b)'
    <3>0. TransactionInv(b) /\ \A i \in Batch(b) : RecordInv(b, i)
      BY <1>0, <2>3 DEF TransactionInv
    <3>1. \A i \in Batch(b) : RecordInv(b, i)'
      BY <1>4, <3>0 DEF RecordInv, Settled, StartFrame
    <3>2. Elsewhere(b)'
      BY <1>4, <3>0 DEF TransactionInv, Elsewhere, StartFrame
    <3> QED BY <1>1, <1>4, <3>1, <3>2 DEF TransactionInv
  <2> QED BY <2>1, <2>2, <2>3
<1> QED BY <1>2, <1>8, <1>11, <1>12, <1>13, <1>14, <1>15, <1>16 DEF PAInv, SharedInv, DirectoryInv

LEMMA LowerStep == ASSUME PAInv, NEW b \in Builds, Lower(b) PROVE PAInv'
<1>1. StartFrame(b)
  BY DEF Lower, StartFrame, Untouchable, Staging, Batching, PAInv, Types
<1> QED BY <1>1, StartStep DEF Lower

LEMMA ReserveStep == ASSUME PAInv, NEW b \in Builds, Reserve(b) PROVE PAInv'
<1> USE DEF Untouchable, Staging, Batching
<1>0. Types /\ pc[b] = "reserve"
  BY DEF PAInv, Reserve
<1>1. CASE /\ nonce[b] + 1 \in Nonces /\ nonce' = [nonce EXCEPT ![b] = @ + 1]
           /\ UNCHANGED <<reserved, pc, outcome>>
  <2>1. Goto(b, "reserve")
    BY <1>0, <1>1 DEF Goto, Types
  <2>2. nonce' \in [Builds -> Nonces] /\ \A c \in Builds : c # b => nonce'[c] = nonce[c]
    BY <1>0, <1>1 DEF Types
  <2>3. StartFrame(b)
    BY <1>1, <2>1, <2>2 DEF StartFrame, Reserve
  <2> QED BY <1>0, <2>3, StartStep
<1>2. CASE nonce' = nonce
  <2>1. StartFrame(b)
    <3>1. \/ Stop(b) /\ reserved' = reserved
          \/ /\ nonce[b] \notin reserved /\ reserved' = reserved \union {nonce[b]}
             /\ Goto(b, "probe") /\ outcome' = outcome
      <4>1. nonce' # [nonce EXCEPT ![b] = @ + 1]
        <5>1. nonce \in [Builds -> Nonces] /\ nonce[b] \in Nat
          BY <1>0 DEF Types, Nonces
        <5> QED BY <1>2, <5>1
      <4> QED BY <4>1 DEF Reserve
    <3>2. nonce' \in [Builds -> Nonces]
      BY <1>0, <1>2 DEF Types
    <3> QED BY <1>2, <3>1, <3>2 DEF StartFrame, Reserve
  <2> QED BY <1>0, <2>1, StartStep
<1> QED BY <1>1, <1>2 DEF Reserve

LEMMA StartCrash ==
    ASSUME PAInv, NEW b \in Builds, Crash(b), pc[b] \in {"lower", "reserve"}
    PROVE  PAInv'
<1>1. StartFrame(b)
  BY DEF Crash, StartFrame, Untouchable, Staging, Batching, PAInv, Types
<1> QED BY <1>1, StartStep

LEMMA CrashStep == ASSUME PAInv, NEW b \in Builds, Crash(b) PROVE PAInv'
<1>1. pc[b] \in Reserving \union {"lower", "reserve"}
  BY DEF PAInv, Types, Crash, Active, Places, Preparing, Starting, Ended, Reserving
<1> QED BY <1>1, ReservedCrash, StartCrash


\* The new build may be the only one that runs; another is no longer alone.
LEMMA PlanStep ==
    ASSUME PAInv, NEW b \in Builds, Plan(b)
    PROVE  PAInv'
<1> USE DEF Untouchable, Staging, Batching
<1>0. /\ Types /\ PlaceInv(b) /\ OrderInv(b) /\ pc[b] = "idle" /\ outcome[b] = "none"
      /\ directory' = directory /\ new' = new /\ old' = old /\ replacement' = replacement
      /\ reserved' = reserved /\ nonce' = nonce /\ index' = index /\ incomplete' = incomplete
      /\ found' = found /\ latest' = {b} /\ before' = [before EXCEPT ![b] = directory]
      /\ alone' = [other \in Builds |-> IF other = b THEN \A c \in Builds : ~Active(c)
                                        ELSE alone[other] /\ ~Active(other)]
  BY DEF PAInv, LocalInv, PlaceInv, Preparing, Starting, Plan
<1>1. PICK batch \in Batches :
        /\ files' = [files EXCEPT ![b] = batch]
        /\ \/ /\ batch # <<>>
              /\ \A i, j \in DOMAIN batch : Fold[batch[i]] = Fold[batch[j]] => i = j
              /\ Goto(b, "lower")
              /\ UNCHANGED outcome
           \/ Stop(b)
  BY DEF Plan
<1>2. /\ files' \in [Builds -> Batches \union {<<>>}] /\ files'[b] = batch
      /\ before' \in [Builds -> [Entries -> Contents]] /\ before'[b] = directory
      /\ pc' \in [Builds -> Places]
      /\ outcome' \in [Builds -> {"none", "failed", "incomplete", "committed"}]
      /\ \A c \in Builds : c # b => /\ pc'[c] = pc[c] /\ outcome'[c] = outcome[c]
                                    /\ files'[c] = files[c] /\ before'[c] = before[c]
      /\ \/ /\ pc'[b] = "lower" /\ outcome'[b] = "none" /\ batch # <<>>
            /\ \A i, j \in DOMAIN batch : Fold[batch[i]] = Fold[batch[j]] => i = j
         \/ pc'[b] = "returned" /\ outcome'[b] = "failed"
  <2>1. files' \in [Builds -> Batches \union {<<>>}] /\ files'[b] = batch
        /\ \A c \in Builds : c # b => files'[c] = files[c]
    BY <1>0, <1>1 DEF Types
  <2>2. before' \in [Builds -> [Entries -> Contents]] /\ before'[b] = directory
        /\ \A c \in Builds : c # b => before'[c] = before[c]
    BY <1>0 DEF Types
  <2>3. "lower" \in Places /\ "returned" \in Places
    BY DEF Places, Preparing, Starting, Ended
  <2>4. CASE /\ batch # <<>> /\ Goto(b, "lower") /\ outcome' = outcome
             /\ \A i, j \in DOMAIN batch : Fold[batch[i]] = Fold[batch[j]] => i = j
    BY <1>0, <2>1, <2>2, <2>3, <2>4 DEF Types, Goto
  <2>5. CASE Stop(b)
    BY <1>0, <2>1, <2>2, <2>3, <2>5 DEF Types, Goto, Stop, Returns
  <2> QED BY <1>1, <2>4, <2>5
<1>3. /\ alone' \in [Builds -> BOOLEAN]
      /\ alone'[b] => \A c \in Builds : ~Active(c)
  <2>1. \A o \in Builds : (IF o = b THEN \A c \in Builds : ~Active(c) ELSE alone[o] /\ ~Active(o)) \in BOOLEAN
    BY <1>0 DEF Types
  <2> QED BY <1>0, <2>1
<1>4. Types'
  BY <1>0, <1>2, <1>3 DEF Types
<1>5. \A c \in Builds : c # b => SameBuild(c)
  BY <1>0, <1>2 DEF SameBuild
<1>6. /\ Batch(b)' = DOMAIN batch /\ Batch(b)' = 1 .. Len(batch) /\ Len(batch) \in Nat
      /\ batch # <<>> => Batch(b)' # {}
      /\ Batch(b)' \subseteq Positions
  <2>1. batch \in Seq(Names)
    OBVIOUS
  <2>2. DOMAIN batch = 1 .. Len(batch) /\ Len(batch) \in Nat
    BY <2>1, LenProperties
  <2>3. batch # <<>> => Len(batch) # 0
    BY <2>1, EmptySeq
  <2>4. DOMAIN batch \subseteq Positions
    BY DEF Positions
  <2>5. Batch(b)' = DOMAIN batch
    BY <1>2 DEF Batch
  <2>6. batch # <<>> => 1 \in DOMAIN batch
    BY <2>2, <2>3
  <2> QED BY <2>2, <2>4, <2>5, <2>6
<1>7. \A i \in Positions : Settled(b, i) /\ Settled(b, i)'
  BY <1>0 DEF OrderInv, Preparing, Starting, Settled
<1>8. PlaceInv(b)' /\ NamesInv(b)' /\ OrderInv(b)'
  <2>1. PlaceInv(b)'
    <3>1. index'[b] = 1
      BY <1>0 DEF PlaceInv, Starting
    <3> QED BY <1>2, <1>6, <3>1 DEF PlaceInv, Preparing, Starting, Reserving
  <2>2. NamesInv(b)'
    BY <1>2, <1>6 DEF NamesInv
  <2>3. OrderInv(b)'
    BY <1>2, <1>6, <1>7 DEF OrderInv, Preparing, Starting
  <2> QED BY <2>1, <2>2, <2>3
<1>9. LocalInv'
  BY <1>5, <1>8, LocalFrame DEF LocalInv, PAInv
<1>10. ~Owner(b)' /\ \A c \in Builds : c # b => (Owner(c)' <=> Owner(c))
  <2>1. ~Owner(b)'
    BY <1>2 DEF Owner, Reserving
  <2> QED BY <1>5, <2>1 DEF Owner, SameBuild, Batch
<1>11. OwnersInv'
  BY <1>0, <1>10 DEF OwnersInv, PAInv, SharedInv
<1>12. \A c \in Builds : StagingInv(c)' /\ InspectedInv(c)'
  <2>1. StagingInv(b)' /\ InspectedInv(b)'
    BY <1>2, <1>6, <1>7 DEF StagingInv, InspectedInv, Settled
  <2>2. \A c \in Builds : c # b => StagingInv(c)' /\ InspectedInv(c)'
    BY <1>0, <1>5, OthersFrame DEF PAInv, SharedInv
  <2> QED BY <2>1, <2>2
<1>13. StagingReleased'
  <2>1. ASSUME NEW d \in reserved \ found
        PROVE  \E c \in Builds :
                  /\ nonce'[c] = d
                  /\ \/ Active(c)' /\ pc'[c] \notin {"lower", "reserve"}
                     \/ pc'[c] \in {"crashed", "residue"}
                     \/ outcome'[c] = "incomplete"
    <3>1. PICK c \in Builds : /\ nonce[c] = d
                              /\ \/ Active(c) /\ pc[c] \notin {"lower", "reserve"}
                                 \/ pc[c] \in {"crashed", "residue"}
                                 \/ outcome[c] = "incomplete"
      BY <2>1 DEF PAInv, SharedInv, StagingReleased
    <3>2. c # b
      BY <1>0, <3>1 DEF Active
    <3> QED BY <1>0, <1>2, <3>1, <3>2 DEF Active
  <2> QED BY <1>0, <2>1 DEF StagingReleased
<1>14. EmptyInv'
  BY <1>0 DEF EmptyInv, PAInv, SharedInv, Absent
<1>15. AloneInv'
  <2>1. \A c \in Builds : c # b => (Active(c)' <=> Active(c))
    BY <1>5 DEF SameBuild, Active
  <2>2. \A c \in latest' : c = b /\ pc'[c] # "idle"
    BY <1>0, <1>2
  <2>3. \A c \in Undisturbed' : \A a \in Builds : a # c => ~Active(a)'
    BY <1>3, <2>1, <2>2 DEF Undisturbed
  <2> QED BY <2>2, <2>3 DEF AloneInv
<1>16. \A c \in Undisturbed' : TransactionInv(c)'
  <2>1. \A c \in Undisturbed' : c = b
    BY <1>0 DEF Undisturbed
  <2>2. Elsewhere(b)'
    BY <1>0, <1>2 DEF Elsewhere
  <2>3. \A i \in Batch(b)' : RecordInv(b, i)'
    BY <1>0, <1>2, <1>6, <1>7 DEF RecordInv, Settled
  <2>4. TransactionInv(b)'
    BY <1>2, <2>2, <2>3 DEF TransactionInv
  <2> QED BY <2>1, <2>4
<1> QED BY <1>4, <1>9, <1>11, <1>12, <1>13, <1>14, <1>15, <1>16 DEF PAInv, SharedInv, DirectoryInv


\* remove_all: what a build's own staging directory held is no longer needed.
LEMMA RemoveStagingStep ==
    ASSUME PAInv, NEW b \in Builds, RemoveStaging(b)
    PROVE  PAInv'
<1> USE DEF Untouchable, Staging, Batching
<1>i. PICK n : n = nonce[b]
  OBVIOUS
<1>0. /\ Types /\ PlaceInv(b) /\ OrderInv(b) /\ pc[b] = "cleanup" /\ n \in Nonces
      /\ b \in Undisturbed => TransactionInv(b)
      /\ outcome[b] \in {"failed", "committed"} /\ Active(b) /\ Owner(b)
      /\ directory' = directory /\ replacement' = replacement /\ nonce' = nonce /\ index' = index
      /\ incomplete' = incomplete /\ outcome' = outcome
      /\ files' = files /\ before' = before /\ latest' = latest /\ alone' = alone /\ found' = found
  BY <1>i DEF PAInv, Types, LocalInv, DirectoryInv, PlaceInv, Active, Ended, Owner, Reserving, RemoveStaging
<1>1. /\ new' \in [Nonces -> [Positions -> Contents \ {Subdirectory}]]
      /\ old' \in [Nonces -> [Positions -> Contents \ {Subdirectory}]]
      /\ \A d \in Nonces : d # n => new'[d] = new[d] /\ old'[d] = old[d]
      /\ \/ /\ reserved' = reserved \ {n} /\ Goto(b, "returned")
            /\ \A i \in Positions : new'[n][i] = Absent /\ old'[n][i] = Absent
         \/ reserved' = reserved /\ Goto(b, "residue")
  <2>0. /\ new \in [Nonces -> [Positions -> Contents \ {Subdirectory}]]
        /\ old \in [Nonces -> [Positions -> Contents \ {Subdirectory}]]
    BY <1>0 DEF Types
  <2>1. CASE /\ reserved' = reserved \ {n} /\ Goto(b, "returned")
             /\ new' = [new EXCEPT ![n] = [i \in Positions |-> Absent]]
             /\ old' = [old EXCEPT ![n] = [i \in Positions |-> Absent]]
    <3>1. [i \in Positions |-> Absent] \in [Positions -> Contents \ {Subdirectory}]
      BY ContentFacts
    <3> QED BY <1>0, <2>0, <2>1, <3>1
  <2>2. CASE /\ reserved' = reserved /\ Goto(b, "residue")
             /\ new' \in {[new EXCEPT ![n] = Without(@, gone)] : gone \in SUBSET Positions}
             /\ old' \in {[old EXCEPT ![n] = Without(@, gone)] : gone \in SUBSET Positions}
    <3>1. \A gone \in SUBSET Positions, s \in [Positions -> Contents \ {Subdirectory}] :
              Without(s, gone) \in [Positions -> Contents \ {Subdirectory}]
      BY ContentFacts DEF Without
    <3>2. PICK g \in SUBSET Positions : new' = [new EXCEPT ![n] = Without(new[n], g)]
      BY <2>2
    <3>3. PICK h \in SUBSET Positions : old' = [old EXCEPT ![n] = Without(old[n], h)]
      BY <2>2
    <3>4. /\ Without(new[n], g) \in [Positions -> Contents \ {Subdirectory}]
          /\ Without(old[n], h) \in [Positions -> Contents \ {Subdirectory}]
      BY <1>0, <2>0, <3>1
    <3> QED BY <1>0, <2>0, <2>2, <3>2, <3>3, <3>4
  <2> QED BY <1>i, <2>1, <2>2 DEF RemoveStaging
<1>2. /\ pc' \in [Builds -> Places] /\ \A c \in Builds : c # b => pc'[c] = pc[c]
      /\ \/ /\ pc'[b] = "returned" /\ reserved' = reserved \ {n}
            /\ \A i \in Positions : new'[n][i] = Absent /\ old'[n][i] = Absent
         \/ pc'[b] = "residue" /\ reserved' = reserved
  <2>1. "returned" \in Places /\ "residue" \in Places
    BY DEF Places, Ended
  <2> QED BY <1>0, <1>1, <2>1 DEF Types, Goto
<1>3. Types'
  BY <1>0, <1>1, <1>2 DEF Types
<1>4. OwnFrame(b)
  BY <1>i, <1>0, <1>1, <1>2 DEF OwnFrame, SameBuild
<1>5. /\ Batch(b)' = Batch(b) /\ Batch(b) \subseteq Positions
      /\ \A i : Destination(b, i)' = Destination(b, i) /\ (Settled(b, i)' <=> Settled(b, i))
      /\ outcome[b] = "failed" => \A i \in Batch(b) : Settled(b, i)
  <2>1. outcome[b] = "failed" => \A i \in Batch(b) : Settled(b, i)
    BY <1>0 DEF OrderInv
  <2> QED BY <1>0, <2>1, BatchFacts DEF Batch, Destination, Settled, Types
<1>6. PlaceInv(b)' /\ NamesInv(b)' /\ OrderInv(b)'
  <2>1. PlaceInv(b)'
    BY <1>0, <1>2, <1>5 DEF PlaceInv, Preparing, Starting, Reserving
  <2>2. NamesInv(b)'
    BY <1>2 DEF NamesInv
  <2>3. OrderInv(b)'
    BY <1>0, <1>2, <1>5 DEF OrderInv, Preparing, Starting
  <2> QED BY <2>1, <2>2, <2>3
<1>7. StagingInv(b)' /\ InspectedInv(b)'
  BY <1>0, <1>2, <1>5 DEF StagingInv, InspectedInv, Settled
<1>8. ASSUME b \in Undisturbed PROVE TransactionInv(b)'
  <2>0. TransactionInv(b)
    BY <1>0, <1>8
  <2>1. Elsewhere(b)'
    BY <1>0, <1>5, <2>0 DEF TransactionInv, Elsewhere
  <2>2. outcome[b] = "failed" => \A i \in Batch(b) : directory[Destination(b, i)] = before[b][Destination(b, i)]
    BY <1>0, <1>5, <2>0 DEF TransactionInv, RecordInv
  <2>3. outcome[b] = "failed" => \A i \in Batch(b) : RecordInv(b, i)'
    BY <1>0, <1>5, <2>2 DEF RecordInv, Settled
  <2>4. outcome[b] = "committed" => \A i \in Batch(b) : (directory[Destination(b, i)] = Written(b, i))'
    BY <1>0, <1>5, <2>0 DEF TransactionInv, Written
  <2> QED BY <1>0, <1>2, <1>5, <2>1, <2>3, <2>4 DEF TransactionInv
<1>9. OwnConclusions(b)
  BY <1>6, <1>7, <1>8 DEF OwnConclusions
<1>10. CASE pc'[b] = "residue" /\ reserved' = reserved
  BY <1>0, <1>3, <1>4, <1>9, <1>10, OwnStep DEF Reserving
<1>11. CASE /\ pc'[b] = "returned" /\ reserved' = reserved \ {n}
            /\ \A i \in Positions : new'[n][i] = Absent /\ old'[n][i] = Absent
  <2>1. \A c \in Builds : c # b => SameBuild(c)
    BY <1>4 DEF OwnFrame
  <2>2. LocalInv'
    BY <1>6, <2>1, LocalFrame DEF LocalInv, PAInv
  <2>3. ~Owner(b)' /\ \A c \in Builds : c # b => (Owner(c)' <=> Owner(c))
    <3>1. ~Owner(b)'
      BY <1>0, <1>11 DEF Owner, Reserving
    <3> QED BY <2>1, <3>1 DEF Owner, SameBuild, Batch
  <2>4. OwnersInv'
    <3>1. ASSUME NEW c \in Builds, Owner(c)' PROVE Owner(c) /\ nonce[c] \in reserved \ {n}
      <4>1. c # b /\ Owner(c)
        BY <2>3, <3>1
      <4> QED BY <1>i, <1>0, <4>1 DEF PAInv, SharedInv, OwnersInv
    <3> QED BY <1>0, <1>11, <3>1 DEF OwnersInv, PAInv, SharedInv
  <2>5. \A c \in Builds : StagingInv(c)' /\ InspectedInv(c)'
    <3>1. ASSUME NEW c \in Builds, c # b PROVE StagingInv(c)'
      <4>1. \A d \in Nonces : d # nonce[b] => new'[d] = new[d] /\ old'[d] = old[d]
        BY <1>i, <1>1
      <4> QED BY <1>0, <2>1, <3>1, <4>1, StagingFrame DEF PAInv, SharedInv
    <3>2. ASSUME NEW c \in Builds, c # b PROVE InspectedInv(c)'
      <4>1. SameBuild(c) /\ Batch(c)' = Batch(c) /\ \A i : Destination(c, i)' = Destination(c, i)
        BY <2>1, <3>2 DEF SameBuild, Batch, Destination
      <4>2. InspectedInv(c)
        BY DEF PAInv, SharedInv
      <4> QED BY <1>0, <4>1, <4>2 DEF InspectedInv, SameBuild, Subdirectory
    <3> QED BY <1>7, <3>1, <3>2
  <2>6. StagingReleased'
    <3>1. ASSUME NEW d \in reserved \ found, d # n
          PROVE  \E c \in Builds :
                    /\ nonce'[c] = d
                    /\ \/ Active(c)' /\ pc'[c] \notin {"lower", "reserve"}
                       \/ pc'[c] \in {"crashed", "residue"}
                       \/ outcome'[c] = "incomplete"
      <4>1. PICK c \in Builds : /\ nonce[c] = d
                                /\ \/ Active(c) /\ pc[c] \notin {"lower", "reserve"}
                                   \/ pc[c] \in {"crashed", "residue"}
                                   \/ outcome[c] = "incomplete"
        BY <3>1 DEF PAInv, SharedInv, StagingReleased
      <4>2. c # b
        BY <1>i, <3>1, <4>1
      <4> QED BY <1>0, <1>2, <4>1, <4>2 DEF Active
    <3> QED BY <1>0, <1>11, <3>1 DEF StagingReleased
  <2>7. EmptyInv'
    BY <1>1, <1>11 DEF EmptyInv, PAInv, SharedInv, Absent
  <2>8. AloneInv' /\ \A c \in Undisturbed' : c = b
    <3>1. \A c \in Builds : c # b => (Active(c)' <=> Active(c)) /\ pc'[c] = pc[c]
      BY <2>1 DEF SameBuild, Active
    <3>2. Undisturbed' = Undisturbed
      BY <1>0 DEF Undisturbed
    <3>3. \A c \in Undisturbed : c = b
      BY <1>0 DEF PAInv, DirectoryInv, AloneInv
    <3>4. \A c \in latest' : pc'[c] # "idle"
      BY <1>0, <1>11, <3>1 DEF PAInv, DirectoryInv, AloneInv, Types
    <3>5. \A c \in Undisturbed' : \A a \in Builds : a # c => ~Active(a)'
      BY <3>1, <3>2, <3>3 DEF PAInv, DirectoryInv, AloneInv
    <3> QED BY <1>0, <3>2, <3>3, <3>4, <3>5 DEF AloneInv, PAInv, DirectoryInv
  <2>9. \A c \in Undisturbed' : TransactionInv(c)'
    <3>1. Undisturbed' = Undisturbed
      BY <1>0 DEF Undisturbed
    <3> QED BY <1>8, <2>8, <3>1
  <2> QED BY <1>3, <2>2, <2>4, <2>5, <2>6, <2>7, <2>8, <2>9 DEF PAInv, SharedInv, DirectoryInv
<1> QED BY <1>2, <1>10, <1>11


-----------------------------------------------------------------------------
LEMMA InitialInv == PAInit => PAInv
<1> SUFFICES ASSUME PAInit PROVE PAInv
  OBVIOUS
<1>0. /\ \A b \in Builds : /\ pc[b] = "idle" /\ outcome[b] = "none" /\ index[b] = 1 /\ files[b] = <<>>
      /\ latest = {} /\ reserved = found /\ found \subseteq Nonces
      /\ \A b \in Builds, i \in Positions : Settled(b, i)
      /\ \A b \in Builds : Batch(b) \subseteq Positions
  <2>1. found \subseteq Nonces
    BY DEF PAInit, Nonces
  <2>2. \A b \in Builds : files[b] = <<>>
    BY DEF PAInit
  <2>3. \A b \in Builds : Batch(b) \subseteq Positions
    BY <2>2, BatchFacts
  <2> QED BY <2>1, <2>2, <2>3 DEF PAInit, Settled, Untouched
<1>1. Types
  <2>1. directory \in [Entries -> Contents] /\ before \in [Builds -> [Entries -> Contents]]
    <3>1. directory \in [Entries -> Contents]
      BY ContentFacts DEF PAInit
    <3> QED BY <3>1 DEF PAInit
  <2>2. /\ new \in [Nonces -> [Positions -> Contents \ {Subdirectory}]]
        /\ old \in [Nonces -> [Positions -> Contents \ {Subdirectory}]]
    BY ContentFacts DEF PAInit
  <2>3. replacement \in [Builds -> [Positions -> Replacements]]
    BY DEF PAInit, Untouched, Replacements
  <2>4. nonce \in [Builds -> Nonces]
    BY DEF PAInit, Nonces
  <2>5. pc \in [Builds -> Places] /\ files \in [Builds -> Batches \union {<<>>}]
    BY DEF PAInit, Places, Preparing, Starting
  <2>6. /\ index \in [Builds -> Nat] /\ incomplete \in [Builds -> BOOLEAN]
        /\ outcome \in [Builds -> {"none", "failed", "incomplete", "committed"}]
        /\ latest \subseteq Builds /\ alone \in [Builds -> BOOLEAN]
    BY DEF PAInit
  <2> QED BY <1>0, <2>1, <2>2, <2>3, <2>4, <2>5, <2>6 DEF Types
<1>2. ASSUME NEW b \in Builds PROVE PlaceInv(b) /\ NamesInv(b) /\ OrderInv(b)
  <2>1. PlaceInv(b)
    BY <1>0 DEF PlaceInv, Reserving
  <2>2. NamesInv(b)
    BY <1>0 DEF NamesInv
  <2>3. OrderInv(b)
    BY <1>0 DEF OrderInv
  <2> QED BY <2>1, <2>2, <2>3
<1>3. OwnersInv
  BY <1>0 DEF OwnersInv, Owner, Reserving
<1>4. \A b \in Builds : StagingInv(b) /\ InspectedInv(b)
  <2>1. ASSUME NEW b \in Builds PROVE StagingInv(b) /\ InspectedInv(b)
    BY <1>0 DEF StagingInv, InspectedInv, Settled
  <2> QED BY <2>1
<1>5. StagingReleased /\ EmptyInv
  BY <1>0 DEF StagingReleased, EmptyInv, PAInit
<1>6. AloneInv /\ Undisturbed = {}
  BY <1>0 DEF AloneInv, Undisturbed
<1> QED BY <1>1, <1>2, <1>3, <1>4, <1>5, <1>6 DEF PAInv, LocalInv, SharedInv, DirectoryInv

LEMMA StutterInv == PAInv /\ UNCHANGED paVars => PAInv'
<1> SUFFICES ASSUME PAInv, UNCHANGED paVars PROVE PAInv'
  OBVIOUS
<1> USE DEF paVars
<1>1. /\ \A b \in Builds : SameBuild(b) /\ (Active(b)' <=> Active(b)) /\ (Owner(b)' <=> Owner(b))
      /\ Undisturbed' = Undisturbed
  BY DEF SameBuild, Active, Owner, Batch, Undisturbed
<1>2. Types' /\ LocalInv'
  <2>1. Types'
    BY DEF PAInv, Types
  <2> QED BY <1>1, <2>1, LocalFrame DEF PAInv, LocalInv
<1>3. \A b \in Builds : StagingInv(b)' /\ InspectedInv(b)'
  BY <1>1, OthersFrame DEF PAInv, SharedInv
<1>4. OwnersInv' /\ EmptyInv' /\ StagingReleased'
  <2>1. OwnersInv'
    BY <1>1 DEF PAInv, SharedInv, OwnersInv
  <2>2. EmptyInv'
    BY DEF PAInv, SharedInv, EmptyInv, Absent
  <2>3. StagingReleased'
    BY <1>1 DEF PAInv, SharedInv, StagingReleased
  <2> QED BY <2>1, <2>2, <2>3
<1>5. AloneInv'
  BY <1>1 DEF PAInv, DirectoryInv, AloneInv
<1>6. ASSUME NEW b \in Undisturbed PROVE TransactionInv(b)'
  <2>1. Batch(b)' = Batch(b) /\ \A i : Destination(b, i)' = Destination(b, i) /\ (Settled(b, i)' <=> Settled(b, i))
    BY DEF Batch, Destination, Settled
  <2>2. \A i : RecordInv(b, i)' <=> RecordInv(b, i)
    BY <2>1 DEF RecordInv, Written, Absent
  <2>3. Elsewhere(b)' <=> Elsewhere(b)
    BY <2>1 DEF Elsewhere
  <2> QED BY <1>6, <2>1, <2>2, <2>3 DEF PAInv, DirectoryInv, TransactionInv, Written, Absent
<1> QED BY <1>1, <1>2, <1>3, <1>4, <1>5, <1>6 DEF PAInv, SharedInv, DirectoryInv

LEMMA StepInv == PAInv /\ [PANext]_paVars => PAInv'
<1> SUFFICES ASSUME PAInv, [PANext]_paVars PROVE PAInv'
  OBVIOUS
<1>1. CASE UNCHANGED paVars
  BY <1>1, StutterInv
<1>2. ASSUME NEW b \in Builds, Step(b) PROVE PAInv'
  <2>1. CASE Plan(b)
    BY <2>1, PlanStep
  <2>2. CASE Lower(b)
    BY <2>2, LowerStep
  <2>3. CASE Reserve(b)
    BY <2>3, ReserveStep
  <2>4. CASE ProbeNames(b)
    BY <2>4, ProbeNamesStep
  <2>5. CASE WriteStagedFile(b)
    BY <2>5, WriteStagedFileStep
  <2>6. CASE InspectDestination(b)
    BY <2>6, InspectDestinationStep
  <2>7. CASE BackUp(b)
    BY <2>7, BackUpStep
  <2>8. CASE Install(b)
    BY <2>8, InstallStep
  <2>9. CASE RemoveInstalled(b)
    BY <2>9, RemoveInstalledStep
  <2>10. CASE RestoreBackup(b)
    BY <2>10, RestoreBackupStep
  <2>11. CASE SkipReplacement(b)
    BY <2>11, SkipReplacementStep
  <2>12. CASE EndRollBack(b)
    BY <2>12, EndRollBackStep
  <2>13. CASE RemoveStaging(b)
    BY <2>13, RemoveStagingStep
  <2> QED BY <1>2, <2>1, <2>2, <2>3, <2>4, <2>5, <2>6, <2>7, <2>8, <2>9, <2>10, <2>11, <2>12, <2>13 DEF Step
<1>3. ASSUME NEW b \in Builds, Crash(b) PROVE PAInv'
  BY <1>3, CrashStep
<1> QED BY <1>1, <1>2, <1>3 DEF PANext

\* Every state any number of builds can reach satisfies the invariant, with a
\* process killed between any two of the calls of CommitArtifactFiles.
THEOREM ArtifactsInvariance == PASpec => []PAInv
<1>1. PAInit => PAInv
  BY InitialInv
<1>2. PAInv /\ [PANext]_paVars => PAInv'
  BY StepInv
<1> QED BY <1>1, <1>2, PTL DEF PASpec

-----------------------------------------------------------------------------
(* What the invariant says of the properties the runs check.               *)

\* The variables keep the values the code gives them, and a staging directory
\* that does not exist holds nothing.
THEOREM ArtifactsTypesHold == PASpec => []PATypeOK
<1>1. PAInv => PATypeOK
  <2> SUFFICES ASSUME PAInv PROVE PATypeOK
    OBVIOUS
  <2>0. Types /\ EmptyInv /\ \A b \in Builds : PlaceInv(b)
    BY DEF PAInv, LocalInv, SharedInv
  <2>1. ASSUME NEW d \in Nonces, NEW i \in Positions
        PROVE  /\ new[d][i] \in Contents \ {Subdirectory}
               /\ old[d][i] \in Contents \ {Subdirectory}
               /\ d \notin reserved => new[d][i] = Absent /\ old[d][i] = Absent
    BY <2>0 DEF Types, EmptyInv
  <2>2. ASSUME NEW b \in Builds
        PROVE  /\ pc[b] \in Ended \union {"idle", "lower", "reserve", "probe", "stage",
                                          "inspect", "replace", "rollback", "cleanup"}
               /\ nonce[b] \in Nonces
               /\ index[b] \in 0 .. Len(files[b]) \union {1}
               /\ outcome[b] \in {"none", "failed", "incomplete", "committed"}
               /\ incomplete[b] \in BOOLEAN
    BY <2>0 DEF Types, PlaceInv, Places, Preparing, Starting, Reserving
  <2> QED BY <2>0, <2>1, <2>2 DEF PATypeOK, Types
<1> QED BY <1>1, ArtifactsInvariance, PTL

\* CommitArtifactFiles that reports an error without a recovery directory has
\* left every entry of the output directory as it was, whichever call failed.
THEOREM FailureRestoresHolds == PASpec => []FailureRestores
<1>1. PAInv => FailureRestores
  <2> SUFFICES ASSUME PAInv, NEW b \in Undisturbed, outcome[b] = "failed",
                      pc[b] \in {"cleanup", "returned", "residue"}
               PROVE  directory = before[b]
    BY DEF FailureRestores
  <2>0. b \in Builds /\ Types /\ OrderInv(b) /\ TransactionInv(b)
    BY DEF PAInv, LocalInv, DirectoryInv, Undisturbed, Types
  <2>1. directory \in [Entries -> Contents] /\ before[b] \in [Entries -> Contents]
    BY <2>0 DEF Types
  <2>2. ASSUME NEW e \in Entries PROVE directory[e] = before[b][e]
    <3>1. CASE \A i \in Batch(b) : Destination(b, i) # e
      BY <2>0, <3>1 DEF TransactionInv, Elsewhere
    <3>2. ASSUME NEW i \in Batch(b), Destination(b, i) = e PROVE directory[e] = before[b][e]
      <4>1. Settled(b, i) /\ RecordInv(b, i)
        BY <2>0 DEF OrderInv, TransactionInv
      <4> QED BY <3>2, <4>1 DEF RecordInv
    <3> QED BY <3>1, <3>2
  <2> QED BY <2>1, <2>2
<1> QED BY <1>1, ArtifactsInvariance, PTL

\* CommitArtifactFiles that reports success has put every file of its batch,
\* whole, under its own name, and has changed no other entry.
THEOREM CommittedWholeHolds == PASpec => []CommittedWhole
<1>1. PAInv => CommittedWhole
  <2> SUFFICES ASSUME PAInv, NEW b \in Undisturbed, outcome[b] = "committed"
               PROVE  /\ \A i \in Batch(b) : directory[Destination(b, i)] = Written(b, i)
                      /\ \A e \in Entries \ {Destination(b, i) : i \in Batch(b)} :
                             directory[e] = before[b][e]
    BY DEF CommittedWhole
  <2>1. TransactionInv(b)
    BY DEF PAInv, DirectoryInv
  <2> QED BY <2>1 DEF TransactionInv, Elsewhere
<1> QED BY <1>1, ArtifactsInvariance, PTL

\* Wherever a process is killed, and after an incomplete rollback, what an
\* entry held is in that entry or in the backup its build made of it.
THEOREM OriginalsRecoverableHolds == PASpec => []OriginalsRecoverable
<1>1. PAInv => OriginalsRecoverable
  <2> SUFFICES ASSUME PAInv, NEW b \in Undisturbed, outcome[b] # "committed", NEW e \in Entries
               PROVE  \/ before[b][e] \in {directory[e], Absent}
                      \/ \E i \in Batch(b) : /\ Destination(b, i) = e
                                             /\ old[nonce[b]][i] = before[b][e]
    BY DEF OriginalsRecoverable
  <2>1. TransactionInv(b)
    BY DEF PAInv, DirectoryInv
  <2>2. CASE \A i \in Batch(b) : Destination(b, i) # e
    BY <2>1, <2>2 DEF TransactionInv, Elsewhere
  <2>3. ASSUME NEW i \in Batch(b), Destination(b, i) = e
        PROVE  \/ before[b][e] \in {directory[e], Absent}
               \/ old[nonce[b]][i] = before[b][e]
    <3>1. RecordInv(b, i)
      BY <2>1 DEF TransactionInv
    <3> QED BY <2>3, <3>1 DEF RecordInv, Settled
  <2> QED BY <2>2, <2>3
<1> QED BY <1>1, ArtifactsInvariance, PTL

\* A backup outlives everything but its own build's return: no other build
\* reserves, empties or removes the TransactionDirectory it is in.
THEOREM BackupsKeptHolds == PASpec => []BackupsKept
<1>1. PAInv => BackupsKept
  <2> SUFFICES ASSUME PAInv, NEW b \in Builds, NEW i \in Batch(b)
               PROVE  /\ replacement[b][i].backed_up /\ outcome[b] # "committed"
                           => nonce[b] \in reserved /\ old[nonce[b]][i] # Absent
                      /\ pc[b] = "replace" /\ i >= index[b] /\ ~replacement[b][i].installed
                           => new[nonce[b]][i] = Written(b, i)
    BY DEF BackupsKept
  <2>0. Types /\ LocalInv /\ OwnersInv /\ StagingInv(b)
    BY DEF PAInv, SharedInv
  <2>1. ASSUME replacement[b][i].backed_up, outcome[b] # "committed"
        PROVE  nonce[b] \in reserved /\ old[nonce[b]][i] # Absent
    <3>1. Owner(b)
      BY <2>0, <2>1, BackupOwned
    <3> QED BY <2>0, <2>1, <3>1 DEF OwnersInv, StagingInv
  <2> QED BY <2>0, <2>1 DEF StagingInv
<1> QED BY <1>1, ArtifactsInvariance, PTL

\* Staging directories do not pile up: each one left behind is a running,
\* a killed or an unrecovered build's, or could not be removed.
THEOREM StagingReleasedHolds == PASpec => []StagingReleased
<1>1. PAInv => StagingReleased
  BY DEF PAInv, SharedInv
<1> QED BY <1>1, ArtifactsInvariance, PTL

=============================================================================
