--------------------------- MODULE CmaRuntimeInv ---------------------------
(***************************************************************************)
(* The inductive invariants behind the safety properties of CmaRuntime.    *)
(* Module CmaRuntimeProofs proves that they are inductive; they are also   *)
(* checked on the instances of MCCmaRuntime.                               *)
(***************************************************************************)
EXTENDS CmaRuntime

Freeing      == {"freeFast", "freeSlow", "report", "shrink"}
Reallocating == {"reStart", "reReport", "reBody"}

(* What a thread has in its variables at each location. *)
Located ==
  \A t \in Thread :
    /\ pc[t] \in {"idle", "collect"} => fresh[t] = NoPtr
    /\ pc[t] \in {"idle", "allocate", "collect"} => ptr[t] = NoPtr
    /\ pc[t] # "idle" => zid[t] \in Id
    /\ pc[t] = "allocate" => fresh[t] # NoPtr
    /\ pc[t] \in Freeing => ptr[t] # NoPtr
    /\ pc[t] \in Reallocating => fresh[t] = NoPtr
    /\ pc[t] = "reReport" => ptr[t] # NoPtr
    /\ pc[t] \in {"report", "shrink", "reReport"} => info[ptr[t]] # Untracked

(* The counter of a zone never falls behind its list, with or without GC. *)
Counted ==
  \A id \in Id : /\ Len(zone[id].list) <= zone[id].num
                 /\ Len(zone[id].list) <= QuarantineNum

(* The thread is answerable for an address that its instance has handed    *)
(* out: it is about to pass it to the program, to put it into a zone or to *)
(* run the body of FREE with it.                                           *)
Holds(t, p) ==
  \/ ptr[t] = p /\ pc[t] \in Freeing \cup Reallocating
  \/ ptr[t] = p /\ pc[t] = "reEnd" /\ fresh[t] = NoPtr
  \/ Returning(t, p)
  \/ fresh[t] = p

InList(list, p) == \E i \in DOMAIN list : list[i].ptr = p
Once(list, p) ==
  \A i, j \in DOMAIN list : list[i].ptr = p /\ list[j].ptr = p => i = j

Listed(id, p) == InList(zone[id].list, p)

(* While a thread collects, the others are outside of the CMA, and the     *)
(* zone of the instance is still as the hook has left it.                  *)
Stopped ==
  \A t \in Thread : pc[t] = "collect" =>
    /\ \A u \in Thread \ {t} : pc[u] = "idle"
    /\ QuarantineOn => zone[zid[t]].list = << >>

(* Addresses stay with the instances that serve them. *)
Served ==
  /\ \A p \in Ptr : owner[p] # NoId => p \in Serves[owner[p]]
  /\ \A p \in Ptr : info[p].id # NoId => p \in Serves[info[p].id]
  /\ \A t \in Thread, p \in Ptr :
       pc[t] # "idle" /\ ptr[t] = p => p \in Serves[zid[t]]

(* An address the program may use has been handed out. *)
LiveOwned == \A p \in Ptr : prog[p] = "live" => owner[p] # NoId

(* An address a thread holds is handed out, not usable by the program, and *)
(* held by this thread alone.                                              *)
HeldOnce ==
  /\ \A t \in Thread, p \in Ptr : Holds(t, p) =>
       /\ owner[p] = zid[t]
       /\ prog[p] # "live"
       /\ \A u \in Thread : Holds(u, p) => u = t
  /\ \A t \in Thread, p \in Ptr :
       ptr[t] = p /\ pc[t] \in Freeing => prog[p] = "dangling" /\ fresh[t] # p
  /\ \A t \in Thread, p \in Ptr : Returning(t, p) => fresh[t] # p

(* An address in a zone is one the program has freed and the allocator has *)
(* not got back; no thread holds it, and it is there once.                 *)
ListedOnce ==
  \A id \in Id, p \in Ptr : Listed(id, p) =>
    /\ QuarantineOn
    /\ owner[p] = id
    /\ prog[p] = "dangling"
    /\ \A t \in Thread : ~Holds(t, p)
    /\ Once(zone[id].list, p)

(* Who answers for an address, at every moment: the program, one thread,   *)
(* one zone or the allocator.                                              *)
Custody == Served /\ LiveOwned /\ HeldOnce /\ ListedOnce

(* The instances share no memory, the CMAs with a quarantine have no CLEAR *)
(* (which leaves the zone as it is), and the program frees nothing twice.  *)
CustodyAssumption ==
  /\ \A i, j \in Id : i # j => Serves[i] \cap Serves[j] = {}
  /\ "CLEAR" \in Api => ~QuarantineOn
  /\ ProgramErrors = {FALSE}
=============================================================================
