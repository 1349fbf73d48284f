------------------------------ MODULE PcTable ------------------------------
(***************************************************************************)
(* The address ranges of CMA functions: read from a list when the process  *)
(* starts, and searched for the program counters of a call stack.          *)
(*                                                                         *)
(* An address is a natural number.  A function has its instructions at     *)
(* From[f] .. To[f] of its file, To[f] being the address of the last one,  *)
(* and the loader puts the file at LoadedAt.  The list has the functions   *)
(* of the program (the point of reference first), then those of its shared *)
(* libraries.  Its text is not modelled: a line is the function it names.  *)
(***************************************************************************)
EXTENDS Integers, Sequences

CONSTANTS
  Function,
  From, To,        \* function -> address in its file
  LoadedAt,        \* function -> where the loader has put its file
  Exported,        \* functions of libraries that dlsym finds
  ReferencePoint,  \* CMASanPIEReferencePoint
  Lists,           \* the lists a process may be given
  CMA_MAX_N

(* A line; with only, the function goes on the white list and nowhere else. *)
Line == [fn : Function, shared : BOOLEAN, only : BOOLEAN]

ASSUME TableAssumption ==
  /\ ReferencePoint \in Function
  /\ From \in [Function -> Nat \ {0}] /\ To \in [Function -> Nat]
  /\ LoadedAt \in [Function -> Nat] /\ Exported \subseteq Function
  /\ CMA_MAX_N \in Nat \ {0}
  /\ \A list \in Lists :
       /\ list \in Seq(Line) /\ Len(list) > 0
       /\ list[1].fn = ReferencePoint /\ ~list[1].shared
  /\ \A list \in Lists : \A i \in DOMAIN list :
       ~list[i].shared => LoadedAt[list[i].fn] = LoadedAt[ReferencePoint]

VARIABLES
  list,       \* the file
  line,       \* the line to be read next
  base,       \* base_address, 0 before the point of reference is read
  cma,        \* cma_pc_range, up to cma_count
  whitelist,  \* whitelist_pc_range, up to whitelist_count
  process     \* "starting", "running" or "aborted" by a CHECK

tableVars == <<list, line, base, cma, whitelist, process>>

(* An entry of a table, and whether a program counter is in it. *)
AddressRange == [from : Nat, to : Nat]

Within(range, pc) == range.from <= pc /\ pc <= range.to

(* Where a function really is. *)
Real(f) == LoadedAt[f] + From[f]

-----------------------------------------------------------------------------
TableInit ==
  /\ list \in Lists /\ line = 1
  /\ base = 0 /\ cma = <<>> /\ whitelist = <<>>
  /\ process = "starting"

Reading(shared) ==
  /\ process = "starting"
  /\ line <= Len(list)
  /\ list[line].shared = shared
  /\ line' = line + 1
  /\ UNCHANGED list

(* The first line tells how far the program has been moved. *)
ReadReference ==
  /\ Reading(FALSE) /\ line = 1
  /\ base' = Real(ReferencePoint) - From[list[line].fn]
  /\ UNCHANGED <<cma, whitelist, process>>

(* Mutant: the limit is passed. *)
CheckedNot(table, white) == process' = process

(* CHECK(cma_count < CMA_MAX_N && whitelist_count < CMA_MAX_N) *)
Checked(table, white) ==
  process' = IF Len(table) < CMA_MAX_N /\ Len(white) < CMA_MAX_N
             THEN process ELSE "aborted"

(* Both tables get a function, ... *)
Enter(range) ==
  /\ whitelist' = Append(whitelist, range)
  /\ cma' = IF list[line].only THEN cma ELSE Append(cma, range)
  /\ Checked(cma', whitelist')

(* Mutant: the start stays where it is in the file. *)
StaticRangeUnmoved(f) == [from |-> From[f], to |-> base + To[f]]

(* ... a function of the program, whose address moves with the program, ... *)
StaticRange(f) == [from |-> base + From[f], to |-> base + To[f]]

ReadStatic ==
  /\ Reading(FALSE) /\ line # 1
  /\ Enter(StaticRange(list[line].fn))
  /\ UNCHANGED base

(* ... or one of a library, where dlsym finds it. *)
DynamicRange(f) ==
  LET start == Real(f) IN [from |-> start, to |-> start + (To[f] - From[f])]

ReadShared ==
  /\ Reading(TRUE)
  /\ list[line].fn \in Exported
  /\ Enter(DynamicRange(list[line].fn))
  /\ UNCHANGED base

(* It does not find a function with a local name. *)
SkipShared ==
  /\ Reading(TRUE)
  /\ list[line].fn \notin Exported
  /\ UNCHANGED <<base, cma, whitelist, process>>

(* The list is read and the program begins. *)
BeginProgram ==
  /\ process = "starting" /\ line > Len(list)
  /\ process' = "running"
  /\ UNCHANGED <<list, line, base, cma, whitelist>>

ReadList == \/ ReadReference \/ ReadStatic \/ ReadShared \/ SkipShared
            \/ BeginProgram

-----------------------------------------------------------------------------
(* isCMAInCallStack for the program counters of a stack. *)
IsCMAInCallStack(pcs) ==
  \E i \in DOMAIN pcs, k \in DOMAIN whitelist : Within(whitelist[k], pcs[i])

(* isCMAInCallStackSkipOneCMA: entries with two different starts are met. *)
IsCMAInCallStackSkipOneCMA(pcs) ==
  \E i, j \in DOMAIN pcs : \E k, l \in DOMAIN cma :
    /\ Within(cma[k], pcs[i]) /\ Within(cma[l], pcs[j])
    /\ cma[k].from # cma[l].from
=============================================================================
