---------------------------- MODULE FlowRegistry ----------------------------
(***************************************************************************)
(* Registration of tenants (flow groups) in nvme/nvmedev.c, driven by the  *)
(* connections of apps/reflex_server.c.  Every thread collects calls from  *)
(* its connections and executes them in a batch.  The bitmap of used slots *)
(* and the global rates are protected by nvme_bitmap_lock, so a critical   *)
(* section is one step; the fields of a slot of nvme_fgs are written       *)
(* outside of it, and those writes are steps of their own.                 *)
(*                                                                         *)
(* A tenant is identified by the source port of its connection (flow).  An *)
(* SLO is a record of lat (0 for best effort), iops and rw, the percentage *)
(* of reads.                                                               *)
(***************************************************************************)
EXTENDS DeviceModel, FiniteSets, FiniteSetsExt

CONSTANTS NumThreads,    \* cpus_active
          Conns,         \* connections, each accepted and closed once
          Home,          \* the thread that serves a connection
          FlowOf,        \* conn_fg_handle, its source port
          Slos,          \* the SLOs that connections ask for
          MaxFg,         \* MAX_NVME_FLOW_GROUPS
          Swqs,          \* capacity of the pool of software queues
          MaxRegs,       \* bound on registrations by one connection
          MaxBatch,      \* bound on the calls in a batch
          EarlyClients   \* whether clients connect before all threads run

Threads == 1..NumThreads
Slots == 0..(MaxFg-1)
Free == [flow |-> 0, tid |-> 0, slo |-> [lat |-> 0, iops |-> 0, rw |-> 0],
         lc |-> FALSE, limit |-> 0, iopus |-> 0, ref |-> 0, swq |-> 0]

ASSUME RegistryAssumption ==
  /\ NumThreads \in Nat \ {0} /\ MaxFg \in Nat \ {0, 1}
  /\ Home \in [Conns -> Threads] /\ FlowOf \in [Conns -> Nat \ {0}]
  /\ Slos \subseteq [lat : Nat, iops : Nat, rw : 0..100]
  /\ {MaxRegs, MaxBatch} \subseteq Nat /\ EarlyClients \in BOOLEAN
  /\ Swqs \in Nat

VARIABLES
  bitmap,   \* nvme_fgs_bitmap: the slots in use
  fg,       \* nvme_fgs; iopus is scaled_IOPuS_limit * Micro, swq its queue
  g,        \* global rates and counts, under nvme_bitmap_lock
  mgr,      \* mgr[t]: nvme_tenant_manager; list is the set of queues on tenant_swq
  owner,    \* owner[x]: fg_handle in software queue x
  conn,     \* conn[c]: open, handle (nvme_fg_handle), regs
  calls,    \* calls[t]: the batch of system calls
  th        \* th[t]: control state of thread t and its local variables

vars == <<bitmap, fg, g, mgr, owner, conn, calls, th>>

Labels == {"open", "app", "call", "match", "remove", "clear", "slo", "flag",
           "add", "finish"}

Init ==
  /\ bitmap = {}
  /\ fg = [s \in Slots |-> Free]
  /\ g = [rate |-> UintMax, lcsum |-> 0, nbe |-> 0, nlc |-> 0, boost |-> 0,
          be |-> 0, rdonly |-> TRUE]
  /\ mgr = [t \in Threads |-> [num |-> 0, be |-> 0, list |-> {}]]
  /\ owner = [x \in 1..Swqs |-> 0]
  /\ conn = [c \in Conns |-> [open |-> TRUE, handle |-> 0, regs |-> 0]]
  /\ calls = [t \in Threads |-> <<>>]
  /\ th = [t \in Threads |-> [pc |-> "open", slot |-> 0, resume |-> "call"]]

Call(t) == Head(calls[t])
Fg(t) == fg[th[t].slot]
Goto(t, l) == th' = [th EXCEPT ![t].pc = l]
Return(t) ==
  /\ calls' = [calls EXCEPT ![t] = Tail(@)]
  /\ th' = [th EXCEPT ![t] = [pc |-> "call", slot |-> 0, resume |-> "call"]]

-----------------------------------------------------------------------------
(* The application.                                                        *)

(* First poll of a thread: bsys_nvme_open clears the shared bitmap, without *)
(* the lock.                                                               *)
Open(t) ==
  /\ th[t].pc = "open"
  /\ bitmap' = {}
  /\ Goto(t, "app")
  /\ UNCHANGED <<fg, g, mgr, owner, conn, calls>>

Serving(t) ==
  /\ th[t].pc = "app"
  /\ EarlyClients \/ \A u \in Threads : th[u].pc # "open"

(* A CMD_REG request: receive_req adds a registration to the batch.        *)
Request(t, c, slo) ==
  /\ Serving(t) /\ Home[c] = t /\ conn[c].open
  /\ conn[c].regs < MaxRegs /\ Len(calls[t]) < MaxBatch
  /\ calls' = [calls EXCEPT ![t] = Append(@, [op |-> "reg", conn |-> c, slo |-> slo])]
  /\ conn' = [conn EXCEPT ![c].regs = @ + 1]
  /\ UNCHANGED <<bitmap, fg, g, mgr, owner, th>>

(* IXEVHUP: pp_main_handler unregisters the handle that the connection has *)
(* at this point.                                                          *)
HangUp(t, c) ==
  /\ Serving(t) /\ Home[c] = t /\ conn[c].open
  /\ Len(calls[t]) < MaxBatch
  /\ calls' = [calls EXCEPT ![t] = Append(@, [op |-> "unreg", slot |-> conn[c].handle])]
  /\ conn' = [conn EXCEPT ![c].open = FALSE]
  /\ UNCHANGED <<bitmap, fg, g, mgr, owner, th>>

(* The thread polls: the batch is executed call by call.                   *)
Poll(t) ==
  /\ th[t].pc = "app" /\ calls[t] # <<>>
  /\ Goto(t, "call")
  /\ UNCHANGED <<bitmap, fg, g, mgr, owner, conn, calls>>

PollDone(t) ==
  /\ th[t].pc = "call" /\ calls[t] = <<>>
  /\ Goto(t, "app")
  /\ UNCHANGED <<bitmap, fg, g, mgr, owner, conn, calls>>

-----------------------------------------------------------------------------

(* The last part of recalculate_weights_add and _remove, from the new      *)
(* values h of the rates and counts.                                       *)
BeShare(h) == IF h.nbe # 0 THEN Uint(Minus(h.rate, h.lcsum) \div h.nbe) ELSE 0
Boost(h) ==
  IF h.nbe = 0 /\ h.nlc # 0 THEN Minus(h.rate, h.lcsum) \div h.nlc ELSE 0

(* readjust_lc_tenant_token_limits: it stops after as many slots as there  *)
(* are LC tenants.                                                         *)
Readjusted(h, boost) ==
  LET lc == {s \in bitmap : fg[s].lc}
      Nth(s) == Cardinality({r \in lc : r <= s})
  IN  [s \in Slots |->
        IF s \in lc /\ (Nth(s) <= h.nlc \/ h.nlc = 0)
        THEN [fg[s] EXCEPT !.iopus = fg[s].limit + boost] ELSE fg[s]]

Rebalance(h) ==
  /\ g' = [h EXCEPT !.be = BeShare(h), !.boost = Boost(h)]
  /\ fg' = IF Boost(h) # h.boost THEN Readjusted(h, Boost(h)) ELSE fg

-----------------------------------------------------------------------------
(* bsys_nvme_register_flow.                                                *)

(* Mutant: the slot that is found is not marked.                           *)
SetFlowGroupIdUnmarked(t) ==
  LET used == {s \in bitmap \ {0} : fg[s].flow = FlowOf[Call(t).conn] /\ fg[s].tid = t}
      free == Slots \ (bitmap \cup {0})
      slot == IF used # {} THEN Min(used) ELSE IF free # {} THEN Min(free) ELSE 0
  IN  /\ th[t].pc = "call" /\ calls[t] # <<>> /\ Call(t).op = "reg"
      /\ th' = [th EXCEPT ![t].slot = slot, ![t].pc = "slo"]
      /\ UNCHANGED <<bitmap, fg, g, mgr, owner, conn, calls>>

(* set_nvme_flow_group_id: a slot this thread has in use for the flow, or  *)
(* else the first free one from 1 on, or else 0.                           *)
SetFlowGroupId(t) ==
  LET call == Call(t)
      flow == FlowOf[call.conn]
      used == {s \in bitmap \ {0} : fg[s].flow = flow /\ fg[s].tid = t}
      free == Slots \ (bitmap \cup {0})
      slot == IF used # {} THEN Min(used) ELSE IF free # {} THEN Min(free) ELSE 0
  IN  /\ th[t].pc = "call" /\ calls[t] # <<>> /\ call.op = "reg"
      /\ bitmap' = bitmap \cup {slot}
      /\ th' = [th EXCEPT ![t].slot = slot,
                          ![t].pc = IF used # {} THEN "match" ELSE "slo"]
      /\ UNCHANGED <<fg, g, mgr, owner, conn, calls>>

(* The flow is registered already, with the same SLO (or see Overwrite).   *)
SameSlo(t) ==
  /\ th[t].pc = "match" /\ Fg(t).slo = Call(t).slo
  /\ Goto(t, "slo")
  /\ UNCHANGED <<bitmap, fg, g, mgr, owner, conn, calls>>

(* The fields other threads look at, written without the lock.             *)
WriteSlo(t) ==
  LET slo == Call(t).slo
  IN  /\ th[t].pc = "slo"
      /\ fg' = [fg EXCEPT ![th[t].slot] =
                  [@ EXCEPT !.flow = FlowOf[Call(t).conn], !.slo = slo, !.tid = t,
                            !.limit = IopsLimit(slo)]]
      /\ Goto(t, "flag")
      /\ UNCHANGED <<bitmap, g, mgr, owner, conn, calls>>

WriteFlag(t) ==
  /\ th[t].pc = "flag"
  /\ fg' = [fg EXCEPT ![th[t].slot].lc = (Call(t).slo.lat # 0)]
  /\ Goto(t, "add")
  /\ UNCHANGED <<bitmap, g, mgr, owner, conn, calls>>

(* recalculate_weights_add for an LC tenant: the read-only flag is updated *)
(* before the lookup, the rate never rises.                                *)
AddedLc(t) ==
  LET f == Fg(t)
      rdonly == g.rdonly /\ f.slo.rw >= 100
  IN  [g EXCEPT !.lcsum = Plus(@, f.limit),
                !.rdonly = rdonly,
                !.rate = Min({@, lookup_device_token_rate(f.slo.lat, rdonly)}),
                !.nlc = @ + 1]

(* Mutant: a BE tenant is not counted.                                     *)
AddedBeUncounted == [g EXCEPT !.rdonly = FALSE]

AddedBe == [g EXCEPT !.nbe = @ + 1, !.rdonly = FALSE]

(* Mutant: the totals are updated before they are compared.                *)
RejectCharged(t) ==
  /\ th[t].pc = "add" /\ Fg(t).lc /\ AddedLc(t).lcsum > AddedLc(t).rate
  /\ g' = AddedLc(t)
  /\ Return(t)
  /\ UNCHANGED <<bitmap, fg, mgr, owner, conn>>

(* The SLO cannot be met: the call fails, the slot stays taken.            *)
Reject(t) ==
  LET h == AddedLc(t)
  IN  /\ th[t].pc = "add" /\ Fg(t).lc /\ h.lcsum > h.rate
      /\ g' = [g EXCEPT !.rdonly = h.rdonly]
      /\ Return(t)
      /\ UNCHANGED <<bitmap, fg, mgr, owner, conn>>

AdmitLc(t) ==
  /\ th[t].pc = "add" /\ Fg(t).lc /\ AddedLc(t).lcsum <= AddedLc(t).rate
  /\ Rebalance(AddedLc(t))
  /\ Goto(t, "finish")
  /\ UNCHANGED <<bitmap, mgr, owner, conn, calls>>

AdmitBe(t) ==
  /\ th[t].pc = "add" /\ ~Fg(t).lc
  /\ Rebalance(AddedBe)
  /\ Goto(t, "finish")
  /\ UNCHANGED <<bitmap, mgr, owner, conn, calls>>

(* A software queue goes on the thread's list, and the connection learns   *)
(* the handle before it handles another event.                             *)
Finish(t) ==
  LET free == (1..Swqs) \ UNION {mgr[u].list : u \in Threads}
      x == Min(free)
      be == Call(t).slo.lat = 0
  IN  /\ th[t].pc = "finish" /\ free # {}
      /\ fg' = [fg EXCEPT ![th[t].slot].swq = x, ![th[t].slot].ref = 1]
      /\ owner' = [owner EXCEPT ![x] = th[t].slot]
      /\ mgr' = [mgr EXCEPT ![t].list = @ \cup {x}, ![t].num = @ + 1,
                            ![t].be = IF be THEN @ + 1 ELSE @]
      /\ conn' = [conn EXCEPT ![Call(t).conn].handle = th[t].slot]
      /\ Return(t)
      /\ UNCHANGED <<bitmap, g>>

(* No software queue is left: the call fails, with the rates updated.      *)
FinishNoMem(t) ==
  /\ th[t].pc = "finish"
  /\ UNION {mgr[u].list : u \in Threads} = 1..Swqs
  /\ Return(t)
  /\ UNCHANGED <<bitmap, fg, g, mgr, owner, conn>>

-----------------------------------------------------------------------------
(* bsys_nvme_unregister_flow, called by a connection that is closed, or by *)
(* a registration that replaces the SLO of its tenant.                     *)

(* Mutant: the queue is left on the list.                                  *)
ReleaseListed(t, slot, resume) ==
  /\ fg' = [fg EXCEPT ![slot].ref = @ - 1]
  /\ mgr' = [mgr EXCEPT ![t].num = @ - IF fg[slot].ref = 1 THEN 1 ELSE 0]
  /\ IF resume = "slo" THEN Goto(t, "slo") /\ UNCHANGED calls ELSE Return(t)
  /\ UNCHANGED <<bitmap, g, owner, conn>>

Release(t, slot, resume) ==
  LET last == fg[slot].ref = 1
  IN  /\ fg' = [fg EXCEPT ![slot].ref = @ - 1]
      /\ mgr' = IF last
                THEN [u \in Threads |->
                       [num |-> mgr[u].num - IF u = t THEN 1 ELSE 0,
                        be |-> mgr[u].be - IF u = t /\ ~fg[slot].lc THEN 1 ELSE 0,
                        list |-> mgr[u].list \ {fg[slot].swq}]]
                ELSE mgr
      /\ IF last
         THEN /\ th' = [th EXCEPT ![t] = [pc |-> "remove", slot |-> slot,
                                          resume |-> resume]]
              /\ UNCHANGED calls
         ELSE IF resume = "slo" THEN Goto(t, "slo") /\ UNCHANGED calls
         ELSE Return(t)
      /\ UNCHANGED <<bitmap, g, owner, conn>>

Unregister(t) ==
  /\ th[t].pc = "call" /\ calls[t] # <<>> /\ Call(t).op = "unreg"
  /\ Release(t, Call(t).slot, "call")

Overwrite(t) ==
  /\ th[t].pc = "match" /\ Fg(t).slo # Call(t).slo
  /\ Release(t, th[t].slot, "slo")


(* recalculate_weights_remove: the rate is looked up for the strictest SLO *)
(* of the other slots in use.                                              *)
RemovedLc(t) ==
  LET others == {s \in bitmap \ {th[t].slot} : fg[s].lc}
      mixed == \E s \in others : fg[s].slo.rw < 100
      strictest == Min({UintMax} \cup {fg[s].slo.lat : s \in others})
  IN  [g EXCEPT !.lcsum = Minus(@, Fg(t).limit),
                !.rate = lookup_device_token_rate(strictest, ~mixed),
                !.rdonly = ~mixed,
                !.nlc = Minus(@, 1)]

(* Mutant: the BE tenant stays counted.                                    *)
RemovedBeKept == g

RemovedBe == [g EXCEPT !.nbe = Minus(@, 1)]

Remove(t) ==
  LET h == IF Fg(t).lc THEN RemovedLc(t) ELSE RemovedBe
  IN  /\ th[t].pc = "remove"
      /\ Rebalance([h EXCEPT !.rdonly = @ /\ h.nbe = 0])
      /\ Goto(t, "clear")
      /\ UNCHANGED <<bitmap, mgr, owner, conn, calls>>

ClearSlot(t) ==
  /\ th[t].pc = "clear"
  /\ bitmap' = bitmap \ {th[t].slot}
  /\ IF th[t].resume = "slo" THEN Goto(t, "slo") /\ UNCHANGED calls
                             ELSE Return(t)
  /\ UNCHANGED <<fg, g, mgr, owner, conn>>

-----------------------------------------------------------------------------
Application(t) ==
  \/ Open(t)
  \/ \E c \in Conns : HangUp(t, c) \/ \E slo \in Slos : Request(t, c, slo)
  \/ Poll(t) \/ PollDone(t)

RegisterFlow(t) ==
  \/ SetFlowGroupId(t) \/ SameSlo(t) \/ Overwrite(t) \/ WriteSlo(t) \/ WriteFlag(t)
  \/ Reject(t) \/ AdmitLc(t) \/ AdmitBe(t) \/ Finish(t) \/ FinishNoMem(t)

UnregisterFlow(t) == Unregister(t) \/ Remove(t) \/ ClearSlot(t)

Next == \E t \in Threads : Application(t) \/ RegisterFlow(t) \/ UnregisterFlow(t)

Spec == Init /\ [][Next]_vars
-----------------------------------------------------------------------------
(* Software queues on some list, their slots, and the slots whose tenants  *)
(* are included in the global rates.                                       *)
Listed == UNION {mgr[t].list : t \in Threads}
LiveSlots == {owner[x] : x \in Listed}
Charged == LiveSlots \cup {th[t].slot : t \in {u \in Threads : th[u].pc \in {"finish", "remove"}}}
LimitSum(S) == MapThenSumSet(LAMBDA s : fg[s].limit, S)
Quiet == \A t \in Threads : th[t].pc = "app"

(* Every variable has its type; the unsigned rates and counts never wrap   *)
(* around below zero (they would become large).                            *)
TypeOK ==
  /\ bitmap \subseteq Slots
  /\ fg \in [Slots -> [flow : Nat, tid : 0..NumThreads, slo : Slos \cup {Free.slo},
                       lc : BOOLEAN, limit : Nat, iopus : Nat, ref : Int, swq : 0..Swqs]]
  /\ g \in [rate : 0..UlongMax, lcsum : 0..UlongMax, nbe : 0..Cardinality(Conns) * MaxRegs,
            nlc : 0..Cardinality(Conns) * MaxRegs, boost : 0..UlongMax, be : 0..UintMax,
            rdonly : BOOLEAN]
  /\ mgr \in [Threads -> [num : Nat, be : Nat, list : SUBSET (1..Swqs)]]
  /\ owner \in [1..Swqs -> Slots]
  /\ conn \in [Conns -> [open : BOOLEAN, handle : Slots, regs : 0..MaxRegs]]
  /\ \A t \in Threads : Len(calls[t]) <= MaxBatch
  /\ th \in [Threads -> [pc : Labels, slot : Slots, resume : {"call", "slo"}]]

(* When every connection has a flow of its own: global_LC_sum_token_rate   *)
(* is what the LC tenants have reserved, no more and no less, while other  *)
(* threads register, fail to register and unregister.                      *)
ReservationsExact == g.lcsum = LimitSum({s \in Charged : fg[s].lc})

(* Likewise: no two tenants on the threads' lists share a slot, a tenant's *)
(* slot is marked as used, and it says which thread the tenant is on.      *)
OneOwner ==
  /\ \A x, y \in Listed : x # y => owner[x] # owner[y]
  /\ \A t \in Threads : \A x \in mgr[t].list :
       /\ owner[x] \in bitmap /\ fg[owner[x]].tid = t
       /\ fg[owner[x]].swq = x /\ fg[owner[x]].ref = 1

(* Likewise: the threads' counts of BE tenants add up to the global one,   *)
(* by which the BE rate is divided, but for registrations under way.       *)
BeCounted ==
  g.nbe = MapThenSumSet(LAMBDA t : mgr[t].be, Threads)
        + Cardinality({t \in Threads : th[t].pc \in {"finish", "remove"} /\ ~Fg(t).lc})



(* On one thread, whatever connections ask for: num_tenants, by which the  *)
(* scheduler divides, is the length of the list that it walks, and a       *)
(* queue is in the slot that it names or has been replaced there.          *)
ListCounted ==
  \A t \in Threads :
    /\ mgr[t].num = Cardinality(mgr[t].list)
    /\ \A s \in Slots : fg[s].ref = 1 => fg[s].swq \in mgr[t].list

-----------------------------------------------------------------------------
(* What comments and messages in the code say, and the code does not do.   *)

(* LC tenants are boosted only if no BE tenants are registered: next to a  *)
(* BE tenant an LC tenant gets tokens at the rate that it has reserved.    *)
BoostOnlyWithoutBe ==
  Quiet /\ g.nbe > 0 => \A s \in LiveSlots : fg[s].lc => fg[s].iopus = fg[s].limit

(* A flow group that is registered is found by its slot, so the slot is    *)
(* marked as used.                                                         *)
RegisteredIsMarked == Quiet => LiveSlots \subseteq bitmap

(* A tenant groups connections with the same SLO: as long as one of them   *)
(* is open, the queue that its requests go to is served.                   *)
TenantServesAll ==
  Quiet => \A c \in Conns : conn[c].open /\ conn[c].handle # 0 =>
             fg[conn[c].handle].swq \in mgr[Home[c]].list

(* A thread with num_best_effort_tenants > 0 has a BE tenant on its list,  *)
(* so the search for the next round-robin start ends.                      *)
NextStartExists ==
  \A t \in Threads : th[t].pc = "app" /\ mgr[t].be > 0 =>
    \E x \in mgr[t].list : ~fg[owner[x]].lc

(* The reservations of the LC tenants, in tokens per second, are within    *)
(* the token rate of the device.                                           *)
ReservedRateFits ==
  MapThenSumSet(LAMBDA s : ScaledIops(fg[s].slo.iops, fg[s].slo.rw),
                {s \in LiveSlots : fg[s].lc}) <= g.rate
=============================================================================
