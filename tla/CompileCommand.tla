--------------------------- MODULE CompileCommand ---------------------------
(***************************************************************************)
(* One compile command from its arguments to its exit status: what Compile *)
(* refuses (Cli/Commands/Commands.cpp), the files (Driver/CorePipeline.cpp,*)
(* Backend/LLVM/Artifact.cpp) and the link (Linker/NativeLinker.cpp).  The *)
(* pipeline between them takes no part in what happens to files: it is a   *)
(* parameter here, which CompilePipeline gives.                            *)
(*                                                                         *)
(* All commands compile Demo.tala, whose text is edited between them, in   *)
(* one directory, so they share the names of their outputs.  Each call of  *)
(* the file system is one step that may fail, and a command may be killed  *)
(* between two of them.  A file is [there, data], its data a sequence.     *)
(*                                                                         *)
(* A document fits the buffer of a stream, so it is read and written in    *)
(* one call each.  A write fails for want of space only, so it fails where *)
(* the file has to grow.                                                   *)
(***************************************************************************)
EXTENDS Naturals, Sequences, FiniteSets

CONSTANTS
    Invocations,        \* bound: how many commands there are, started in order
    AtOnce,             \* bound: how many run at the same time
    Faults,             \* bound: how many writes fall short and commands are killed
    Requests,           \* what a command may ask for
    SourceResult(_),    \* what the pipeline makes of Demo.tala, for a request
    FileResult(_, _),   \* what it makes of a file, for a request
    Document(_, _)      \* a module as an xpp or xmm document, NoBytes if it has none

ASSUME CompileConstants ==
    /\ Invocations \in Nat /\ AtOnce \in Nat /\ Faults \in Nat
    /\ \A q \in Requests :
         /\ q.input \in {"tala", "xpp", "xmm", "object"}
         /\ q.output \in {"xpp", "xmm", "object", "executable", "metadata"}
         /\ q.optimize \in BOOLEAN /\ q.foreign \in BOOLEAN

VARIABLES
    disk,       \* the file of every kind beside Demo.tala
    temporary,  \* the temporary object of every command
    place,      \* where a command is
    request,    \* what it was asked for
    bytes,      \* what it has in memory to write
    status,     \* how it ended
    previous,   \* the files when the latest command started
    solitary,   \* whether no other command ran then
    encoded,    \* every document a command encoded
    accepted,   \* the document every command has decoded, if any
    faults      \* how many faults there were
vars == <<disk, temporary, place, request, bytes, status, previous, solitary, encoded, accepted, faults>>

Commands == 1..Invocations
Kinds == {"xpp", "xmm", "object", "executable", "metadata"}
NoFile == [there |-> FALSE, data |-> <<>>]
File(data) == [there |-> TRUE, data |-> data]
NoBytes == <<>>
None == [output |-> "none"]     \* what a command that has ended was asked is forgotten

Init ==
    /\ disk = [k \in Kinds |-> NoFile]
    /\ temporary = [b \in Commands |-> NoFile]
    /\ place = [b \in Commands |-> "idle"]
    /\ request = [b \in Commands |-> None]
    /\ bytes = [b \in Commands |-> <<>>]
    /\ status = [b \in Commands |-> "none"]
    /\ previous = disk
    /\ solitary = TRUE
    /\ encoded = {}
    /\ accepted = [b \in Commands |-> NoBytes]
    /\ faults = 0

Running(b) == place[b] \notin {"idle", "returned", "residue", "killed"}
Proceed(b, there) == place' = [place EXCEPT ![b] = there]
Ends(b, how) == status' = [status EXCEPT ![b] = how]

(* A failure before there is a temporary object. *)
GiveUp(b, how) == Proceed(b, "returned") /\ Ends(b, how)
Kept == <<request, bytes, previous, solitary, encoded, accepted>>

Fault == faults < Faults /\ faults' = faults + 1
NoFault == faults' = faults
-----------------------------------------------------------------------------
(* The command line.                                                       *)

(* The stages of the pipeline, without those of Core and of LLVM's text. *)
InputStage == [tala |-> 0, xpp |-> 2, xmm |-> 3, object |-> 5]
OutputStage == [xpp |-> 2, xmm |-> 3, object |-> 5, executable |-> 6, metadata |-> 6]

(* Compile: the output comes after the input, and an object is not checked.*)
UsageError(q) ==
    \/ q.output = "metadata" /\ q.input = "object"
    \/ q.output # "metadata" /\ OutputStage[q.output] < InputStage[q.input]
    \/ q.output # "metadata" /\ OutputStage[q.output] = InputStage[q.input] /\ q.input # "tala"

Compile(b) ==
    /\ place[b] = "idle" /\ \A c \in 1..b - 1 : place[c] # "idle"
    /\ Cardinality({c \in Commands : Running(c)}) < AtOnce
    /\ \E q \in Requests :
        /\ request' = [c \in Commands |-> IF c = b THEN q ELSE IF Running(c) THEN request[c] ELSE None]
        /\ Proceed(b, IF UsageError(q) THEN "returned"
                      ELSE IF q.input = "object" THEN "validate" ELSE "consume")
        /\ status' = [c \in Commands |-> IF c = b /\ UsageError(q) THEN "usage error"
                                         ELSE IF Running(c) THEN status[c] ELSE "none"]
    /\ previous' = disk /\ solitary' = \A c \in Commands : ~ Running(c)
    /\ bytes' = [c \in Commands |-> IF Running(c) THEN bytes[c] ELSE <<>>]
    /\ accepted' = [c \in Commands |-> IF Running(c) THEN accepted[c] ELSE NoBytes]
    /\ UNCHANGED <<disk, temporary, encoded, faults>>
-----------------------------------------------------------------------------
(* The end of the pipeline, whose result is [ok, module], the module of the*)
(* last stage the output asks for.                                         *)

(* An object, and the record of a check, in two parts. *)
ObjectOf(module, foreign) == <<[of |-> module, foreign |-> foreign], "end">>
RecordOf(q) == <<"talameta 1", q.input>>

(* What will be written. *)
BytesOf(q, module) ==
    CASE q.output \in {"xpp", "xmm"} -> Document(module, q)
      [] q.output \in {"object", "executable"} -> ObjectOf(module, q.foreign)
      [] q.output = "metadata" -> RecordOf(q)

(* After the pipeline: a check records its success, an intermediate form   *)
(* is encoded, an executable needs a temporary object first.  Nothing is   *)
(* written before all that has succeeded.                                  *)
Prepared(b, q, module) ==
    /\ bytes' = [bytes EXCEPT ![b] = BytesOf(q, module)]
    /\ IF bytes'[b] = NoBytes THEN GiveUp(b, "rejected")
       ELSE Proceed(b, IF q.output = "executable" THEN "open temporary" ELSE "open") /\ UNCHANGED status
    /\ encoded' = IF q.output \in {"xpp", "xmm"} THEN (encoded \union {bytes'[b]}) \ {NoBytes}
                  ELSE encoded

(* ProcessArtifact and what calls it.  The frontend, the warning policy,   *)
(* the size limit, the read itself and the backend may also say no.        *)
Rejected(b) == GiveUp(b, "rejected") /\ UNCHANGED <<disk, bytes, encoded, accepted>>

Consumed(b, q, result) == result.ok /\ Prepared(b, q, result.module) /\ UNCHANGED disk
ConsumeSource(b) ==
    /\ place[b] = "consume" /\ request[b].input = "tala"
    /\ \/ Rejected(b)
       \/ Consumed(b, request[b], SourceResult(request[b])) /\ UNCHANGED accepted
    /\ UNCHANGED <<temporary, request, previous, solitary, faults>>

ConsumeFile(b) ==
    LET file == disk[request[b].input] IN
    /\ place[b] = "consume" /\ request[b].input \in {"xpp", "xmm"}
    /\ \/ Rejected(b)
       \/ /\ file.there /\ Consumed(b, request[b], FileResult(file.data, request[b]))
          /\ accepted' = [accepted EXCEPT ![b] = file.data]
    /\ UNCHANGED <<temporary, request, previous, solitary, faults>>
-----------------------------------------------------------------------------
(* Writing.                                                                *)

(* A stream opened with trunc. *)
OpenOutput(b) ==
    /\ place[b] = "open"
    /\ \/ GiveUp(b, "unwritten") /\ UNCHANGED disk
       \/ /\ disk' = [disk EXCEPT ![request[b].output] = File(<<>>)]
          /\ Proceed(b, "write") /\ UNCHANGED status
    /\ UNCHANGED <<temporary, Kept, faults>>

(* data over old; when there is no more space, only up to n.               *)
Over(data, old, n) == SubSeq(data, 1, n) \o SubSeq(old, n + 1, Len(old))
Lengths(data, old) == Len(old)..Len(data) - 1

(* WriteBytes of the driver, WriteMetadata and, for an object, WriteBytes  *)
(* of the backend.  What a small stream could not write shows only when it *)
(* is closed: the backend closes it and looks, the driver lets the         *)
(* destructor do it and reports success.                                   *)
WriteOutput(b) ==
    LET output == request[b].output
        old == disk[output].data
        data == bytes[b]
    IN
    /\ place[b] = "write"
    /\ \/ /\ disk' = [disk EXCEPT ![output] = File(Over(data, old, Len(data)))]
          /\ GiveUp(b, "done") /\ NoFault
       \/ \E n \in Lengths(data, old) :
            /\ Fault
            /\ disk' = [disk EXCEPT ![output] = File(Over(data, old, n))]
            /\ \/ GiveUp(b, "unwritten")
               \/ output # "object" /\ GiveUp(b, "done")
    /\ UNCHANGED <<temporary, Kept>>

(* The temporary object has a name no other process uses. *)
OpenTemporary(b) ==
    /\ place[b] = "open temporary"
    /\ \/ Proceed(b, "cleanup") /\ Ends(b, "unwritten") /\ UNCHANGED temporary
       \/ /\ temporary' = [temporary EXCEPT ![b] = File(<<>>)]
          /\ Proceed(b, "write temporary") /\ UNCHANGED status
    /\ UNCHANGED <<disk, Kept, faults>>

WriteTemporary(b) ==
    LET data == bytes[b] IN
    /\ place[b] = "write temporary"
    /\ \/ /\ temporary' = [temporary EXCEPT ![b] = File(data)]
          /\ Proceed(b, "validate") /\ UNCHANGED status /\ NoFault
       \/ \E n \in Lengths(data, <<>>) :
            /\ Fault
            /\ temporary' = [temporary EXCEPT ![b] = File(SubSeq(data, 1, n))]
            /\ Proceed(b, "cleanup") /\ Ends(b, "unwritten")
    /\ UNCHANGED <<disk, Kept>>
-----------------------------------------------------------------------------
(* LinkNativeExecutable, for LinkObjects and WriteExecutable.              *)

ObjectFile(b) == IF request[b].input = "object" THEN disk["object"] ELSE temporary[b]
Whole(data) == Len(data) = 2

\* Mutant: the destructor of the temporary object is not on this path.
UnlinkedKeeping(b) == Proceed(b, "returned") /\ Ends(b, "unlinked")

(* A diagnostic, and WriteExecutable returns through its destructor. *)
Unlinked(b) == Proceed(b, "cleanup") /\ Ends(b, "unlinked")
Refused(b) == Proceed(b, "cleanup") /\ Ends(b, "refused")

(* ValidateRequest.  The format of an object on the command line is not    *)
(* known: it is taken to be one of this host.                              *)
ValidateRequest(b) ==
    /\ place[b] = "validate"
    /\ IF ObjectFile(b).there /\ (request[b].foreign => request[b].input = "object")
         THEN Proceed(b, "remove") /\ UNCHANGED status
         ELSE Refused(b)
    /\ UNCHANGED <<disk, temporary, Kept, faults>>

\* Mutant: the last executable stays until the linker replaces it.
RemoveNothing(b) ==
    /\ place[b] = "remove" /\ Proceed(b, "link")
    /\ UNCHANGED <<disk, status, temporary, Kept, faults>>

RemoveExecutable(b) ==
    /\ place[b] = "remove"
    /\ \/ Refused(b) /\ UNCHANGED disk
       \/ /\ disk' = [disk EXCEPT !["executable"] = NoFile]
          /\ Proceed(b, "link") /\ UNCHANGED status
    /\ UNCHANGED <<temporary, Kept, faults>>

(* The linker driver is another program: it may not start, it may fail and *)
(* leave a part of its output, or say that it succeeded.  It links no      *)
(* object that is cut short or made for another system.                    *)
RunLinker(b) ==
    LET object == ObjectFile(b).data IN
    /\ place[b] = "link"
    /\ \/ Unlinked(b) /\ UNCHANGED disk
       \/ /\ \E data \in {<<>>, <<"part">>} : disk' = [disk EXCEPT !["executable"] = File(data)]
          /\ Unlinked(b)
       \/ /\ ObjectFile(b).there /\ Whole(object) /\ ~ object[1].foreign
          /\ disk' = [disk EXCEPT !["executable"] = File(object)]
          /\ Proceed(b, "measure") /\ UNCHANGED status
    /\ UNCHANGED <<temporary, Kept, faults>>

(* An executable that is not empty has been produced. *)
MeasureExecutable(b) ==
    /\ place[b] = "measure"
    /\ IF disk["executable"].there /\ disk["executable"].data # <<>>
         THEN Proceed(b, "cleanup") /\ Ends(b, "done")
         ELSE Unlinked(b)
    /\ UNCHANGED <<disk, temporary, Kept, faults>>

(* ~TemporaryObject: an error of the removal is ignored. *)
RemoveTemporary(b) ==
    /\ place[b] = "cleanup"
    /\ \/ temporary' = [temporary EXCEPT ![b] = NoFile] /\ Proceed(b, "returned")
       \/ temporary[b].there /\ Proceed(b, "residue") /\ UNCHANGED temporary
    /\ UNCHANGED <<disk, status, Kept, faults>>

Kill(b) ==
    /\ Running(b) /\ Fault /\ Proceed(b, "killed")
    /\ UNCHANGED <<disk, temporary, status, Kept>>

CommandStep(b) ==
    \/ Compile(b) \/ ConsumeSource(b) \/ ConsumeFile(b)
    \/ OpenOutput(b) \/ WriteOutput(b) \/ OpenTemporary(b) \/ WriteTemporary(b)
    \/ ValidateRequest(b) \/ RemoveExecutable(b) \/ RunLinker(b) \/ MeasureExecutable(b)
    \/ RemoveTemporary(b) \/ Kill(b)

Next == \E b \in Commands : CommandStep(b)
Spec == Init /\ [][Next]_vars
-----------------------------------------------------------------------------
(* Properties of one command are stated of those that ran alone.           *)
Returned(b) == place[b] \in {"returned", "residue"}
Latest(b) == place[b] # "idle" /\ \A c \in b + 1..Invocations : place[c] = "idle"
Unhindered == {b \in Commands : Latest(b) /\ solitary}

(* What a command takes from a file for a module is, number for number, a  *)
(* document that a command encoded: never the part a full disk or a killed *)
(* command left, nor the mixture that two writers of one file leave        *)
(* (Decode, WriteBytes).                                                   *)
AcceptsWhatWasWritten == \A b \in Commands : accepted[b] \in encoded \union {NoBytes}

(* A link that was refused leaves the last executable; a link that failed  *)
(* leaves none that could be taken for this build's; a link that succeeded *)
(* leaves the program this command compiled (LinkNativeExecutable).        *)
ExecutableOfThisBuild ==
    \A b \in Unhindered : Returned(b) /\ request[b].output = "executable" =>
        LET executable == disk["executable"] IN
        CASE status[b] = "done" ->
               executable = File(IF request[b].input = "object" THEN disk["object"].data
                                 ELSE bytes[b])
          [] status[b] = "unlinked" -> ~ Whole(executable.data)
          [] OTHER -> executable = previous["executable"]

(* A command changes no file but its output, and not that one unless its   *)
(* input was accepted; its temporary object is gone when it returns.       *)
LeavesOnlyItsOutput ==
    \A b \in Unhindered : Returned(b) =>
        /\ \A k \in Kinds \ {request[b].output} : disk[k] = previous[k]
        /\ status[b] \in {"usage error", "rejected"} => disk = previous
        /\ place[b] = "returned" => temporary[b] = NoFile
=============================================================================
