------------------------------ MODULE HostCalls ------------------------------
(***************************************************************************)
(* The primitives of host/host.c that hold a buffer, a file or a directory *)
(* while they call the kernel, which may raise out-of-memory, and what the *)
(* string primitives compute in place, in a copy of their argument.        *)
(*                                                                         *)
(* A primitive is its sequence of instructions; nothing else runs between  *)
(* two of them.  A string is a sequence of bytes, none of which is NUL; a  *)
(* file may hold NULs, and may turn out shorter than it was said to be.    *)
(***************************************************************************)
EXTENDS Integers, Sequences, FiniteSets
Sequence == INSTANCE SequencesExt

CONSTANTS
  Strings,  \* what scripts pass: sequences of bytes
  Files,    \* what files hold: sequences of bytes, NUL among them
  Stale,    \* bytes that may be in memory from malloc
  Seps,     \* separators passed to string-split
  Indices,  \* indices passed to string-ref and substring
  Numbers,  \* what is passed to number->string
  Radixes,  \* its radix, other than 10
  IntMax,   \* 2^31: where an int32_t wraps
  EntryMax  \* bound: names in a directory

ASSUME HostCallsAssumption ==
  /\ Strings \subseteq Seq(Nat \ {0}) /\ Seps \subseteq Nat
  /\ Files \subseteq Seq(Nat) /\ Stale \subseteq Nat
  /\ Indices \subseteq Int /\ Radixes \subseteq Nat \ {0, 1}
  /\ IntMax \in Nat /\ Numbers \subseteq -IntMax..(IntMax - 1)
  /\ EntryMax \in Nat

VARIABLES
  prim,        \* the primitive that runs or ran last, and its arguments
  left,        \* its instructions that are left; "idle", "returned", "raised"
  owned,       \* what it holds from malloc, fopen and opendir
  registered,  \* state->pending
  buf,         \* the copy: buf[0 .. len], with a NUL
  at, end,     \* i + 1 and end of h_string_split; lo and hi of h_substring;
               \* end is also uv of h_number_to_string, and what fread returned
  out          \* the value under construction

hostVars == <<prim, left, owned, registered, buf, at, end, out>>

NUL == 0

Idling == left = <<"idle">>

Over == left \in {<<"returned">>, <<"raised">>}

(* What each primitive does, in order.                                     *)
Program(op) ==
  CASE op = "string-ref"    -> <<"copy", "pick", "free", "object", "return">>
    [] op = "string-search" -> <<"copy", "copyNeedle", "free", "object", "return">>
    [] op \in {"substring", "string-append"} ->
         <<"copy", "clip", "register", "string", "unregister", "free", "return">>
    [] op = "string-split" ->
         <<"copy", "register", "split", "unregister", "free", "return">>
    [] op = "read-file" ->
         <<"open", "read", "close", "register", "string", "unregister", "free", "return">>
    [] op = "read-blob" ->
         <<"open", "read", "close", "register", "blob", "unregister", "free", "return">>
    [] op = "write-file"  -> <<"copy", "open", "close", "free", "check", "return">>
    [] op = "write-blob"  -> <<"open", "close", "check", "return">>
    [] op = "list-dir"    -> <<"opendir", "entries", "closedir", "return">>
    [] op = "number->string" -> <<"digits", "sign", "object", "return">>

Len0(b) == Cardinality(DOMAIN b) - 1

CopyOf(s) == [i \in 0..Len(s) |-> IF i < Len(s) THEN s[i + 1] ELSE NUL]

(* What fe_string makes of a C string that starts at b[lo].                *)
CString(b, lo) ==
  LET stop == CHOOSE i \in lo..Len0(b) : b[i] = NUL /\ \A j \in lo..(i - 1) : b[j] # NUL
  IN [i \in 1..(stop - lo) |-> b[lo + i - 1]]

(* The bounds of a substring.                                              *)
Clamp(n, a, b) ==
  LET In(x) == IF x < 0 THEN 0 ELSE IF x > n THEN n ELSE x
  IN <<In(a), IF In(b) < In(a) THEN In(a) ELSE In(b)>>
-----------------------------------------------------------------------------
Starts(op, p) ==
  /\ Idling
  /\ prim' = [op |-> op, arg |-> p]
  /\ left' = Program(op)
  /\ UNCHANGED <<owned, registered, buf, at, end, out>>

CallString ==
  \E s \in Strings :
    \/ \E i \in Indices : i >= 0 /\ Starts("string-ref", [s |-> s, i |-> i])
    \/ \E a, b \in Indices : Starts("substring", [s |-> s, a |-> a, b |-> b])
    \/ \E sep \in Seps : Starts("string-split", [s |-> s, sep |-> sep])
    \/ \E op \in {"string-append", "string-search"}, t \in Strings :
         Starts(op, [s |-> s, t |-> t])

CallFile ==
  \/ \E op \in {"read-file", "read-blob"}, f \in Files : Starts(op, [s |-> f])
  \/ \E s \in Strings : Starts("write-file", [s |-> s])
  \/ \E op \in {"write-blob", "list-dir"} : Starts(op, [s |-> <<>>])

CallNumber ==
  \E n \in Numbers, radix \in Radixes : Starts("number->string", [n |-> n, radix |-> radix])

At(instruction) == Head(left) = instruction

Proceed == left' = Tail(left)

(* fe_error: on_error gives the registered buffers back.                   *)
Raises == left' = <<"raised">> /\ owned' = owned \ registered /\ registered' = {}

(* A failure that the primitive sees gives back what it had so far; not so *)
(* by a slip.                                                              *)
KeepsWhatItHad == left' = <<"raised">> /\ UNCHANGED <<owned, registered>>

GivesUp == left' = <<"raised">> /\ owned' = {} /\ UNCHANGED registered
-----------------------------------------------------------------------------
(* malloc, fopen, opendir.                                                 *)
Takes(instruction, resource) ==
  /\ At(instruction)
  /\ \/ Proceed /\ owned' = owned \cup {resource} /\ UNCHANGED registered
     \/ GivesUp
  /\ UNCHANGED <<prim, out>>

CopyString ==
  /\ Takes("copy", "buffer")
  /\ buf' = CopyOf(IF prim.op = "string-append" THEN prim.arg.s \o prim.arg.t ELSE prim.arg.s)
  /\ end' = Len0(buf')
  /\ at' = IF prim.op = "string-split" THEN Len0(buf') ELSE 0

(* malloc and fread: of a file that had Len(f) bytes when it was measured  *)
(* fread may return fewer, which is tolerated; the rest of the buffer is   *)
(* what malloc left there.                                                 *)
ReadBody ==
  /\ Takes("read", "buffer")
  /\ LET f == prim.arg.s IN
     \E got \in 0..Len(f), stale \in [0..Len(f) -> Stale] :
       /\ buf' = [i \in 0..Len(f) |-> IF i = Len(f) THEN NUL
                                     ELSE IF i < got THEN f[i + 1] ELSE stale[i]]
       /\ end' = got
  /\ at' = 0

(* The needle; the file, where one that cannot seek is closed, which comes *)
(* to the same as one that cannot be opened; the directory.                *)
OpenOther ==
  /\ \/ Takes("copyNeedle", "needle") \/ Takes("open", "file") \/ Takes("opendir", "dir")
  /\ UNCHANGED <<buf, at, end>>

Gives(instruction, resources) ==
  /\ At(instruction) /\ Proceed
  /\ owned' = owned \ resources
  /\ UNCHANGED <<prim, registered, buf, at, end, out>>

FreeBuffers == Gives("free", {"buffer", "needle"})

CloseFile == Gives("close", {"file"})

CloseDir == Gives("closedir", {"dir"})

(* kec_pending_push, kec_pending_pop.                                      *)
PendingPush ==
  /\ At("register") /\ Proceed /\ registered' = registered \cup {"buffer"}
  /\ UNCHANGED <<prim, owned, buf, at, end, out>>

PendingPop ==
  /\ At("unregister") /\ Proceed /\ registered' = registered \ {"buffer"}
  /\ UNCHANGED <<prim, owned, buf, at, end, out>>

(* An instruction that makes an object, which may raise.                   *)
Makes(instruction) ==
  /\ At(instruction)
  /\ \/ Proceed /\ UNCHANGED <<owned, registered>>
     \/ Raises
  /\ UNCHANGED <<prim, buf, at, end>>

MakeNumber == Makes("object") /\ UNCHANGED out

MakeString == Makes("string") /\ out' = CString(buf, at)

(* kec_blob_from_bytes: all the bytes, NULs included.                      *)
MakeBlob == Makes("blob") /\ out' = [i \in 1..Len0(buf) |-> buf[i - 1]]

(* string-ref: past the end is nil.                                        *)
PickByte ==
  /\ At("pick") /\ Proceed
  /\ out' = IF prim.arg.i >= Len0(buf) THEN <<>> ELSE <<buf[prim.arg.i]>>
  /\ UNCHANGED <<prim, owned, registered, buf, at, end>>

(* substring puts a NUL at its end; string-append has it there.            *)
Clip ==
  /\ At("clip") /\ Proceed
  /\ LET c == IF prim.op = "substring" THEN Clamp(Len0(buf), prim.arg.a, prim.arg.b)
                                       ELSE <<0, Len0(buf)>>
     IN at' = c[1] /\ end' = c[2] /\ buf' = [buf EXCEPT ![c[2]] = NUL]
  /\ UNCHANGED <<prim, owned, registered, out>>

(* The segments from the last to the first: buf[i + 1 .. end), with a NUL  *)
(* at its end for as long as fe_string reads it.                           *)
(* Slip: the separator stays at the head of its segment.                   *)
SegmentWithSep(i) ==
  <<CString([buf EXCEPT ![end] = NUL], IF i < 0 THEN 0 ELSE i)>> \o out

Segment(i) == <<CString([buf EXCEPT ![end] = NUL], i + 1)>> \o out

SplitScan ==
  /\ At("split") /\ at > 0
  /\ \/ /\ buf[at - 1] # prim.arg.sep
        /\ at' = at - 1 /\ UNCHANGED <<left, owned, registered, end, out>>
     \/ /\ buf[at - 1] = prim.arg.sep
        /\ out' = Segment(at - 1) /\ end' = at - 1 /\ at' = at - 1
        /\ UNCHANGED <<left, owned, registered>>
     \/ /\ buf[at - 1] = prim.arg.sep
        /\ Raises /\ UNCHANGED <<at, end, out>>
  /\ UNCHANGED <<prim, buf>>

SplitLast ==
  /\ At("split") /\ at = 0
  /\ \/ Proceed /\ out' = Segment(-1) /\ UNCHANGED <<owned, registered>>
     \/ Raises /\ UNCHANGED out
  /\ UNCHANGED <<prim, buf, at, end>>

(* The names of a directory; every one is a string and a pair.             *)
ReadDir ==
  /\ At("entries")
  /\ \/ at < EntryMax /\ at' = at + 1 /\ UNCHANGED <<left, owned, registered>>
     \/ Proceed /\ UNCHANGED <<owned, registered, at>>
     \/ Raises /\ UNCHANGED at
  /\ UNCHANGED <<prim, buf, end, out>>

(* A short write is reported when everything is given back.                *)
CheckWritten ==
  /\ At("check")
  /\ (Proceed /\ UNCHANGED <<owned, registered>>) \/ Raises
  /\ UNCHANGED <<prim, buf, at, end, out>>

(* number->string: the magnitude as an unsigned long.                      *)
Magnitude(n) == IF n < 0 THEN (0 - n) % (2 * IntMax) ELSE n

Digits ==
  /\ At("digits")
  /\ \/ /\ out = <<>>
        /\ end' = Magnitude(prim.arg.n) \div prim.arg.radix
        /\ out' = <<Magnitude(prim.arg.n) % prim.arg.radix>>
        /\ UNCHANGED left
     \/ /\ out # <<>> /\ end > 0
        /\ end' = end \div prim.arg.radix
        /\ out' = <<end % prim.arg.radix>> \o out
        /\ UNCHANGED left
     \/ out # <<>> /\ end <= 0 /\ Proceed /\ UNCHANGED <<end, out>>
  /\ UNCHANGED <<prim, owned, registered, buf, at>>

Minus == -1

Sign ==
  /\ At("sign") /\ Proceed
  /\ out' = IF prim.arg.n < 0 THEN <<Minus>> \o out ELSE out
  /\ UNCHANGED <<prim, owned, registered, buf, at, end>>

Return ==
  /\ At("return")
  /\ left' = <<"returned">>
  /\ UNCHANGED <<prim, owned, registered, buf, at, end, out>>

(* The evaluator has the value, or a guard the error; what the primitive   *)
(* left behind is out of reach.                                            *)
Evaluates ==
  /\ Over
  /\ prim' = [op |-> "none"] /\ left' = <<"idle">> /\ owned' = {}
  /\ buf' = <<>> /\ at' = 0 /\ end' = 0 /\ out' = <<>>
  /\ UNCHANGED registered

HostInit ==
  /\ prim = [op |-> "none"] /\ left = <<"idle">> /\ owned = {} /\ registered = {}
  /\ buf = <<>> /\ at = 0 /\ end = 0 /\ out = <<>>

HostNext ==
  \/ CallString \/ CallFile \/ CallNumber
  \/ CopyString \/ ReadBody \/ OpenOther \/ FreeBuffers \/ CloseFile \/ CloseDir
  \/ PendingPush \/ PendingPop \/ MakeNumber \/ MakeString \/ MakeBlob \/ PickByte \/ Clip
  \/ SplitScan \/ SplitLast \/ ReadDir \/ CheckWritten \/ Digits \/ Sign \/ Return
  \/ Evaluates

HostSpec == HostInit /\ [][HostNext]_hostVars
-----------------------------------------------------------------------------
HostTypeOK ==
  /\ owned \subseteq {"buffer", "needle", "file", "dir"}
  /\ registered \subseteq {"buffer"}

(* However a primitive ends, by returning, by a failure it sees or by an   *)
(* error in the middle of building its value, every buffer and file is     *)
(* given back, and once: what on_error will free is still allocated.       *)
(* list-dir's directory stays open when a name finds no memory (host.c     *)
(* has no guard for it).                                                   *)
NothingLeftBehind ==
  /\ registered \subseteq owned
  /\ Over => registered = {} /\ owned \subseteq {"dir"}
  /\ left = <<"returned">> /\ prim.op = "list-dir" => owned = {}

Value(digits, radix) == Sequence!FoldLeft(LAMBDA n, d : n * radix + d, 0, digits)

(* The bytes of a file to its first NUL, as far as they were read.         *)
TextRead(answer, file, got) ==
  /\ Len(answer) <= Len(file)
  /\ \A i \in 1..Len(answer) : answer[i] # NUL /\ (i <= got => answer[i] = file[i])
  /\ Len(answer) < got => file[Len(answer) + 1] = NUL

(* All the bytes of a file that were read, at their places.                *)
BytesRead(answer, file, got) ==
  Len(answer) = Len(file) /\ \A i \in 1..got : answer[i] = file[i]

(* A numeral is read back as the number, and has no zero in front.         *)
Numeral(answer, n, radix) ==
  LET digits == IF n < 0 THEN Tail(answer) ELSE answer IN
  /\ Head(answer) = Minus <=> n < 0
  /\ n = IF n < 0 THEN -Value(digits, radix) ELSE Value(digits, radix)
  /\ Head(digits) # 0 \/ n = 0

(* The answers, against what the strings, files and numbers are (the       *)
(* comments of h_string_split, h_substring and h_number_to_string):        *)
(* segments joined by the separator are the string, and none holds a       *)
(* separator; a substring has the bytes between its bounds; what is read   *)
(* of a file is in the answer, the whole file unless fread fell short,     *)
(* and beyond it a text may have any bytes that are not NUL, a blob any    *)
(* bytes; a numeral is the number, sign included, the least of all too.    *)
AnswersAreRight ==
  left = <<"returned">> =>
    LET arg == prim.arg IN
    CASE prim.op = "string-split" ->
           /\ out # <<>>
           /\ \A i \in 1..Len(out) : \A j \in 1..Len(out[i]) : out[i][j] # arg.sep
           /\ arg.s = Sequence!FlattenSeq(
                        [k \in 1..(2 * Len(out) - 1) |->
                           IF k % 2 = 0 THEN <<arg.sep>> ELSE out[(k + 1) \div 2]])
      [] prim.op = "substring" ->
           out = SubSeq(arg.s, (IF arg.a < 0 THEN 0 ELSE arg.a) + 1,
                               IF arg.b > Len(arg.s) THEN Len(arg.s) ELSE arg.b)
      [] prim.op = "string-append" -> out = arg.s \o arg.t
      [] prim.op = "read-file" -> TextRead(out, arg.s, end)
      [] prim.op = "read-blob" -> BytesRead(out, arg.s, end)
      [] prim.op = "number->string" -> Numeral(out, arg.n, arg.radix)
      [] OTHER -> TRUE
=============================================================================
