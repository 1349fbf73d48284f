---------------------------- MODULE HookNesting ----------------------------
(***************************************************************************)
(* Which calls the hooks take for a request of the program.  Functions of  *)
(* a CMA call each other, and only the outermost one may extend the size   *)
(* and record the chunk; and what the CMA itself reads of poisoned memory  *)
(* is no error.  The run time tells both by the return addresses on the    *)
(* stack of the thread.                                                    *)
(*                                                                         *)
(* One thread calls functions and returns from them; a call leaves a frame *)
(* (functions have frame pointers, calls in tail position are calls).      *)
(***************************************************************************)
EXTENDS PcTable

CONSTANTS
  Main,
  Plugin,        \* functions of a library opened later
  Instrumented,  \* functions of a CMA that have hooks
  Sites,         \* function -> offsets of its calls and accesses, not the last
                 \* instruction (a call there would not return)
  MaxDepth       \* bound: frames on the stack

(* What a stack trace may hold. *)
kStackTraceMax == 255

ASSUME NestingAssumption ==
  /\ Main \in Function /\ Plugin \subseteq Function
  /\ Instrumented \subseteq Function \ {Main}
  /\ \A f \in Function : Sites[f] \subseteq 0 .. To[f] - From[f]
  /\ \A f \in Function : From[f] <= To[f]
  /\ \A f, g \in Function :
       f # g => \/ LoadedAt[f] + To[f] < Real(g)
                \/ LoadedAt[g] + To[g] < Real(f)
  /\ \A l \in Lists : \A i \in 2 .. Len(l) : ~l[i].only => l[i].fn \in Instrumented
  /\ MaxDepth \in 1 .. kStackTraceMax

VARIABLES
  stack,   \* frames, innermost first
  opened,  \* dlopen has been called for the plugin
  access   \* what came of an access to poisoned memory, if one was made last

vars == <<list, line, base, cma, whitelist, process, stack, opened, access>>

(* at is the program counter in the frame, hooked that its hooks act. *)
Frame == [fn : Function, at : Nat, hooked : BOOLEAN]

PcsOf(frames) == [i \in DOMAIN frames |-> frames[i].at]

(* Mutant: the stack is not followed as far. *)
VisibleLess(frames) ==
  SubSeq(frames, 1, IF Len(frames) < 3 THEN Len(frames) ELSE 3)

(* Unwind with five frames, the first of which is the run time's own. *)
Visible(frames) ==
  SubSeq(frames, 1, IF Len(frames) < 4 THEN Len(frames) ELSE 4)

(* __asan_isInOtherCMA *)
IsInOtherCMA(frames) == IsCMAInCallStackSkipOneCMA(PcsOf(Visible(frames)))

-----------------------------------------------------------------------------
Init ==
  /\ TableInit
  /\ stack = << [fn |-> Main, at |-> Real(Main), hooked |-> FALSE] >>
  /\ opened = FALSE /\ access = "none"

(* The run time reads its list before the program runs. *)
Start == ReadList /\ UNCHANGED <<stack, opened, access>>

(* dlopen, with CMASanOnDlOpen: it looks for a cache under the path of the *)
(* library, taken for a directory.  A library is a file, so there is none, *)
(* and the function returns.                                               *)
CMASanOnDlOpen ==
  /\ process = "running"
  /\ ~opened
  /\ opened' = TRUE
  /\ UNCHANGED <<list, line, base, cma, whitelist, process, stack, access>>

(* The function on top has come to one of its sites. *)
StackAt(site) == [stack EXCEPT ![1].at = Real(stack[1].fn) + site]

(* A call; at its entry, an instrumented function asks where it is.  If it *)
(* is nested, its hooks do nothing; CmaRuntime and ShadowHeap have what    *)
(* they do else (CLEAR, GC and a FREE within a REALLOC act in either case).*)
Call(f) ==
  /\ process = "running"
  /\ Len(stack) < MaxDepth
  /\ f \notin {Main, ReferencePoint} /\ (f \in Plugin => opened)
  /\ \E site \in Sites[stack[1].fn] :
       LET callers == StackAt(site)
           entry == [fn |-> f, at |-> Real(f), hooked |-> FALSE]
           nested == IsInOtherCMA(<<entry>> \o callers)
       IN  stack' = <<[entry EXCEPT !.hooked = f \in Instrumented /\ ~nested]>>
                      \o callers
  /\ access' = "none"
  /\ UNCHANGED <<list, line, base, cma, whitelist, process, opened>>

Return ==
  /\ process = "running"
  /\ Len(stack) > 1
  /\ stack' = Tail(stack)
  /\ access' = "none"
  /\ UNCHANGED <<list, line, base, cma, whitelist, process, opened>>

(* IsPoisonAccessFalsePositive: all frames are looked at. *)
IsPoisonAccessFalsePositive(frames) == IsCMAInCallStack(PcsOf(frames))

(* An access to poisoned memory, and ReportGenericError, which returns or  *)
(* writes a report.                                                        *)
ReportGenericError ==
  /\ process = "running"
  /\ access = "none"
  /\ \E site \in Sites[stack[1].fn] : stack' = StackAt(site)
  /\ access' = IF IsPoisonAccessFalsePositive(stack') THEN "passed" ELSE "reported"
  /\ UNCHANGED <<list, line, base, cma, whitelist, process, opened>>

Next ==
  \/ Start
  \/ CMASanOnDlOpen
  \/ \E f \in Function : Call(f)
  \/ Return
  \/ ReportGenericError

Spec == Init /\ [][Next]_vars

-----------------------------------------------------------------------------
(* The tables stay within their bounds: a list that fills them aborts the  *)
(* process before the program runs.                                        *)
TypeOK ==
  /\ list \in Lists /\ line \in 1 .. Len(list) + 1
  /\ base \in Nat
  /\ cma \in Seq(AddressRange)
  /\ whitelist \in Seq(AddressRange)
  /\ Len(cma) <= Len(whitelist) /\ Len(whitelist) <= CMA_MAX_N
  /\ process \in {"starting", "running", "aborted"}
  /\ process # "aborted" => Len(whitelist) < CMA_MAX_N
  /\ stack \in Seq(Frame) /\ Len(stack) \in 1 .. MaxDepth
  /\ opened \in BOOLEAN
  /\ access \in {"none", "passed", "reported"}

(* Lines of functions found at the start: those of the program, and those  *)
(* of a library that have a name dlsym knows.                              *)
Findable == {i \in 2 .. Len(list) : list[i].shared => list[i].fn \in Exported}

Listed == {list[i].fn : i \in Findable}
KnownCMA == {list[i].fn : i \in {k \in Findable : ~list[k].only}}

(* Frames of the CMA functions on the stack. *)
Positions == {i \in DOMAIN stack : stack[i].fn \in Instrumented}

(* Each function of a CMA is known, and each but the outermost is called   *)
(* by another one, directly or through at most two frames.                 *)
CloselyNested ==
  /\ \A i \in Positions : stack[i].fn \in KnownCMA
  /\ \A i \in Positions :
       (\E j \in Positions : j > i)
         => \E j \in Positions : j \in i + 1 .. i + 3 /\ stack[j].fn # stack[i].fn

(* The hooks of the outermost function of a CMA act, and no others: the    *)
(* size of a request is extended once and its chunk recorded once, however *)
(* the functions of the CMA call each other and wherever they are loaded.  *)
HookedOnce ==
  CloselyNested =>
    \A i \in Positions : stack[i].hooked <=> \A j \in Positions : j <= i

(* An access to poisoned memory is reported exactly if no function that    *)
(* was listed is on the stack, however deep; opening a plugin changes      *)
(* nothing for the program's own CMAs.                                     *)
FilterExact ==
  access # "none" =>
    (access = "passed" <=> \E i \in DOMAIN stack : stack[i].fn \in Listed)
=============================================================================
