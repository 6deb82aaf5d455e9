-------------------------------- MODULE Billing --------------------------------
(***************************************************************************)
(* Metering and billing: daemons record usage in every loop, and processes *)
(* (`hive logs`, `hive bill settle`, the API server) turn the usage of a   *)
(* workload into line items and host earnings, one statement at a time.    *)
(*                                                                         *)
(* Abstractions: usage_seconds stands for all that a minute adds up (the   *)
(* egress is summed alike), and the cost of a workload is linear in it,    *)
(* with integer rates.  Fee and payout are fixed shares of gross_revenue.  *)
(* Of usage_events only its sums are kept: per minute, which is what       *)
(* billing reads, and per host.                                            *)
(***************************************************************************)
EXTENDS Integers, Sequences, FiniteSetsExt

CONSTANTS
    Workload,         \* ids of workloads
    Host,             \* ids of hosts
    NoHost,           \* the NULL of workloads.host_id
    Biller,           \* processes that materialize bills
    Rate,             \* cost of a unit of time, per workload
    Interval,         \* units of time a daemon sleeps between loops
    MeteringInterval, \* units of time a tick accounts for
    MinuteLength,     \* units of time in a minute
    MaxTime,          \* bound on the time
    MaxMoves,         \* bound on the number of migrations
    MaxRestarts,      \* bound on the number of restarts of each daemon
    Exclusive,        \* two processes never bill the same workload at once
    Aborts            \* a process may end, or a statement throw, while it bills

ASSUME HostAssumption == NoHost \notin Host
ASSUME RateAssumption == Rate \in [Workload -> Nat]
ASSUME TimeAssumption ==
    /\ Interval \in Nat \ {0}
    /\ MeteringInterval \in Nat \ {0}
    /\ MinuteLength \in Nat \ {0}
    /\ MaxTime \in Nat
    /\ MaxMoves \in Nat /\ MaxRestarts \in Nat
ASSUME ModeAssumption == Exclusive \in BOOLEAN /\ Aborts \in BOOLEAN

VARIABLES
    now,       \* the time
    hostId,    \* column workloads.host_id
    moves,     \* migrations so far
    restarts,  \* restarts of each host's daemon so far
    loopAt,    \* when each host's daemon begins its next loop at the earliest
    sweep,     \* workloads each host's daemon has read and not yet metered
    usage,     \* SUM(seconds) of usage_events per workload and minute
    ranOn,     \* SUM(seconds) of usage_events per workload and host
    lineItems, \* table billing_line_items: of each workload, by minute
    earnings,  \* table host_earnings: the rows of each workload
    biller     \* where each process is in materializeForWorkload

meterVars == <<now, hostId, moves, restarts, loopAt, sweep, usage, ranOn>>
billVars == <<lineItems, earnings, biller>>
vars == <<meterVars, billVars>>

MinuteBucket(t) == t \div MinuteLength
Minute == {MinuteBucket(t) : t \in 0..MaxTime}

\* A minute without usage has no row: 0 seconds, and no host to bill them for.
Nothing == [m \in Minute |-> 0]
NoItem == [host |-> NoHost, seconds |-> 0, total |-> 0]

LineItem == [host : Host \cup {NoHost}, seconds : Nat, total : Nat]
Earning == [host : Host, minute : Minute, gross : Nat]
Bill == [pc : {"usage", "upsert", "insert"}, w : Workload,
         host : Host, values : [Minute -> Nat], todo : SUBSET Minute]
Idle == [pc |-> "idle"]

TypeOK ==
    /\ now \in 0..MaxTime
    /\ hostId \in [Workload -> Host \cup {NoHost}]
    /\ moves \in Nat
    /\ restarts \in [Host -> Nat]
    /\ loopAt \in [Host -> Nat]
    /\ sweep \in [Host -> SUBSET Workload]
    /\ usage \in [Workload -> [Minute -> Nat]]
    /\ ranOn \in [Workload -> [Host -> Nat]]
    /\ lineItems \in [Workload -> [Minute -> LineItem]]
    /\ earnings \in [Workload -> Seq(Earning)]
    /\ biller \in [Biller -> Bill \cup {Idle}]

Init ==
    /\ now = 0
    /\ hostId = [w \in Workload |-> NoHost]
    /\ moves = 0
    /\ restarts = [h \in Host |-> 0]
    /\ loopAt = [h \in Host |-> 0]
    /\ sweep = [h \in Host |-> {}]
    /\ usage = [w \in Workload |-> [m \in Minute |-> 0]]
    /\ ranOn = [w \in Workload |-> [h \in Host |-> 0]]
    /\ lineItems = [w \in Workload |-> [m \in Minute |-> NoItem]]
    /\ earnings = [w \in Workload |-> <<>>]
    /\ biller = [b \in Biller |-> Idle]

--------------------------------------------------------------------------------
(* What workloads and daemons do meanwhile *)

TimePasses ==
    /\ now < MaxTime
    /\ now' = now + 1
    /\ UNCHANGED <<hostId, moves, restarts, loopAt, sweep, usage, ranOn, billVars>>

\* The UPDATE of spawn that names the host.
AssignWorkload(w) ==
    /\ hostId[w] = NoHost
    /\ \E h \in Host : hostId' = [hostId EXCEPT ![w] = h]
    /\ UNCHANGED <<now, moves, restarts, loopAt, sweep, usage, ranOn, billVars>>

\* The UPDATE of requeueOnHost; the rate stays.
RequeueOnHost(w) ==
    /\ hostId[w] # NoHost /\ moves < MaxMoves
    /\ \E h \in Host \ {hostId[w]} : hostId' = [hostId EXCEPT ![w] = h]
    /\ moves' = moves + 1
    /\ UNCHANGED <<now, restarts, loopAt, sweep, usage, ranOn, billVars>>

\* Mutant: the loop does not sleep.
NextLoopAtOnce == now

NextLoop == now + Interval

\* The daemon of h reads which of its workloads run, in its next loop.
CollectMetering(h) ==
    /\ sweep[h] = {} /\ now >= loopAt[h]
    /\ \E running \in SUBSET {w \in Workload : hostId[w] = h} :
          sweep' = [sweep EXCEPT ![h] = running]
    /\ loopAt' = [loopAt EXCEPT ![h] = NextLoop]
    /\ UNCHANGED <<now, hostId, moves, restarts, usage, ranOn, billVars>>

\* One workload of the sweep: a tick is recorded for it, unless its container
\* turns out not to run.  The loop sleeps after its last workload.
RecordTick(h) ==
    \E w \in sweep[h] :
        /\ sweep' = [sweep EXCEPT ![h] = @ \ {w}]
        /\ loopAt' = [loopAt EXCEPT ![h] = NextLoop]
        /\ \/ /\ usage' = [usage EXCEPT ![w][MinuteBucket(now)] = @ + MeteringInterval]
              /\ ranOn' = [ranOn EXCEPT ![w][h] = @ + MeteringInterval]
           \/ UNCHANGED <<usage, ranOn>>
        /\ UNCHANGED <<now, hostId, moves, restarts, billVars>>

\* The daemon of h is stopped, or dies, and is started again.
RestartDaemon(h) ==
    /\ restarts[h] < MaxRestarts
    /\ restarts' = [restarts EXCEPT ![h] = @ + 1]
    /\ loopAt' = [loopAt EXCEPT ![h] = now]
    /\ sweep' = [sweep EXCEPT ![h] = {}]
    /\ UNCHANGED <<now, hostId, moves, usage, ranOn, billVars>>

--------------------------------------------------------------------------------
(* materializeForWorkload *)

At(b, pc) == biller[b].pc = pc
Busy(b) == biller[b] # Idle

\* Mutant: a workload without a host is billed, too.
MaterializeUnassigned(b, w) ==
    /\ biller[b] = Idle
    /\ Exclusive => \A x \in Biller : Busy(x) => biller[x].w # w
    /\ biller' = [biller EXCEPT ![b] = [pc |-> "usage", w |-> w, host |-> hostId[w],
                                        values |-> Nothing, todo |-> {}]]
    /\ UNCHANGED <<meterVars, lineItems, earnings>>

\* It reads the row, and returns at once if the workload has no host.
Materialize(b, w) ==
    /\ biller[b] = Idle
    /\ Exclusive => \A x \in Biller : Busy(x) => biller[x].w # w
    /\ hostId[w] # NoHost
    /\ biller' = [biller EXCEPT ![b] = [pc |-> "usage", w |-> w, host |-> hostId[w],
                                        values |-> Nothing, todo |-> {}]]
    /\ UNCHANGED <<meterVars, lineItems, earnings>>

\* Mutant: usage that has been billed is not read again.
UnbilledUsage(w) == [m \in Minute |-> usage[w][m] - lineItems[w][m].seconds]

\* The usage of w, grouped by minute.
MinuteUsage(w) == usage[w]

\* The minutes that have any.
Used(values) == {m \in Minute : values[m] > 0}

ReadUsage(b) ==
    /\ At(b, "usage")
    /\ LET values == MinuteUsage(biller[b].w) IN
       biller' = [biller EXCEPT ![b] = [@ EXCEPT !.pc = "upsert", !.values = values,
                                                 !.todo = Used(values)]]
    /\ UNCHANGED <<meterVars, lineItems, earnings>>

NextMinute(b) == {m \in biller[b].todo : \A n \in biller[b].todo : m <= n}
Did(b, m) == biller' = [biller EXCEPT ![b].todo = @ \ {m}]

Cost(w, seconds) == seconds * Rate[w]

\* Mutant: the conflicting row is kept.
FirstLineItem(w, m, h, seconds) ==
    IF lineItems[w][m] = NoItem
    THEN [host |-> h, seconds |-> seconds, total |-> Cost(w, seconds)]
    ELSE lineItems[w][m]

\* Mutant: usage is added to the conflicting row.
AccumulatedLineItem(w, m, h, seconds) ==
    [host |-> h, seconds |-> lineItems[w][m].seconds + seconds,
     total |-> lineItems[w][m].total + Cost(w, seconds)]

\* INSERT ... ON CONFLICT DO UPDATE: everything but the host is replaced.
LineItemOf(w, m, h, seconds) ==
    [host |-> IF lineItems[w][m] = NoItem THEN h ELSE lineItems[w][m].host,
     seconds |-> seconds, total |-> Cost(w, seconds)]

UpsertLineItem(b) ==
    /\ At(b, "upsert")
    /\ \E m \in NextMinute(b) :
          LET w == biller[b].w
              item == LineItemOf(w, m, biller[b].host, biller[b].values[m])
          IN  lineItems' = [lineItems EXCEPT ![w][m] = item] /\ Did(b, m)
    /\ UNCHANGED <<meterVars, earnings>>

\* Mutant: earnings of earlier bills stay.
KeepEarnings(b) ==
    /\ At(b, "upsert") /\ biller[b].todo = {}
    /\ biller' = [biller EXCEPT ![b] = [@ EXCEPT !.pc = "insert",
                                                 !.todo = Used(biller[b].values)]]
    /\ UNCHANGED <<meterVars, lineItems, earnings>>

\* Mutant: the DELETE names the host, too.
DeleteEarningsOfHost(b) ==
    /\ At(b, "upsert") /\ biller[b].todo = {}
    /\ earnings' = [earnings EXCEPT ![biller[b].w] =
                       SelectSeq(@, LAMBDA e : e.host # biller[b].host)]
    /\ biller' = [biller EXCEPT ![b] = [@ EXCEPT !.pc = "insert",
                                                 !.todo = Used(biller[b].values)]]
    /\ UNCHANGED <<meterVars, lineItems>>

DeleteEarnings(b) ==
    /\ At(b, "upsert") /\ biller[b].todo = {}
    /\ earnings' = [earnings EXCEPT ![biller[b].w] = <<>>]
    /\ biller' = [biller EXCEPT ![b] = [@ EXCEPT !.pc = "insert",
                                                 !.todo = Used(biller[b].values)]]
    /\ UNCHANGED <<meterVars, lineItems>>

InsertEarning(b) ==
    /\ At(b, "insert")
    /\ \E m \in NextMinute(b) :
          LET w == biller[b].w IN
          /\ earnings' = [earnings EXCEPT ![w] =
                Append(@, [host |-> biller[b].host, minute |-> m,
                           gross |-> Cost(w, biller[b].values[m])])]
          /\ Did(b, m)
    /\ UNCHANGED <<meterVars, lineItems>>

Done(b) == At(b, "insert") /\ biller[b].todo = {}

Return(b) ==
    /\ Done(b)
    /\ biller' = [biller EXCEPT ![b] = Idle]
    /\ UNCHANGED <<meterVars, lineItems, earnings>>

\* The process ends between two statements, or one of them throws.
Abort(b) ==
    /\ Aborts /\ Busy(b)
    /\ biller' = [biller EXCEPT ![b] = Idle]
    /\ UNCHANGED <<meterVars, lineItems, earnings>>

BillerStep(b) ==
    \/ \E w \in Workload : Materialize(b, w)
    \/ ReadUsage(b) \/ UpsertLineItem(b) \/ DeleteEarnings(b) \/ InsertEarning(b)
    \/ Return(b) \/ Abort(b)

Next ==
    \/ TimePasses
    \/ \E w \in Workload : AssignWorkload(w) \/ RequeueOnHost(w)
    \/ \E h \in Host : CollectMetering(h) \/ RecordTick(h) \/ RestartDaemon(h)
    \/ \E b \in Biller : BillerStep(b)

Spec == Init /\ [][Next]_vars

--------------------------------------------------------------------------------
(* Properties *)

\* However bills of the same workload interleave, with each other and with
\* ticks, a line item never bills more than the minute's usage: the UPSERT
\* replaces what an earlier bill wrote (billingService.ts:62-91).
NeverOverbilled ==
    \A w \in Workload, m \in Minute : lineItems[w][m].seconds <= usage[w][m]

\* A later bill of a workload never takes usage away from a line item of an
\* earlier one, even if that one ended half-way (billingService.ts:33-91).
BillNeverShrinks ==
    [][\A w \in Workload, m \in Minute :
          lineItems'[w][m].seconds >= lineItems[w][m].seconds]_vars

\* Hosts are paid once for a minute of a workload, and never more than its
\* line item charges: the DELETE removes what earlier bills paid, aborted ones
\* included, and the payments follow the line items (billingService.ts:62-108).
PaidOnce ==
    \A w \in Workload : \A i \in DOMAIN earnings[w] :
        LET e == earnings[w][i] IN
        /\ \A j \in DOMAIN earnings[w] : earnings[w][j].minute = e.minute => i = j
        /\ e.gross <= lineItems[w][e.minute].total

\* When materializeForWorkload returns, whatever aborted bills left behind,
\* the books balance: each minute it read is charged and paid in full.
BooksBalance ==
    \A b \in Biller : Busy(b) /\ Done(b) =>
        LET w == biller[b].w
            paid(m) == {i \in DOMAIN earnings[w] : earnings[w][i].minute = m}
        IN  \A m \in Minute :
              /\ lineItems[w][m].seconds = biller[b].values[m]
              /\ m \in Used(biller[b].values) =>
                    \E i \in paid(m) : earnings[w][i].gross = lineItems[w][m].total

\* What is recorded for a workload on a host never runs ahead of the time by
\* more than one tick per start of the daemon (hostDaemon.ts:72-84, 114-122).
MeteredInRealTime ==
    \A w \in Workload, h \in Host :
        ranOn[w][h] <= now + MeteringInterval * (1 + restarts[h])

\* SUM(gross_revenue) over rows of w.
Gross(w, rows) == SumFunctionOnSet([i \in DOMAIN earnings[w] |-> earnings[w][i].gross], rows)

\* That of hostEarnings, for one workload and all time.
HostEarnings(h, w) == Gross(w, {i \in DOMAIN earnings[w] : earnings[w][i].host = h})

\* All that was metered for w.
Seconds(w) == SumFunctionOnSet(usage[w], Minute)

\* A host is paid for the usage metered on it, and for no other
\* (spec/spec.md:140: the host receives the gross usage revenue).
HostReceivesItsRevenue ==
    \A h \in Host, w \in Workload : HostEarnings(h, w) <= Cost(w, ranOn[w][h])

\* What bills pay for a workload is never more than its usage costs, whatever
\* earlier and aborted bills paid and wherever it has moved since; and until
\* there are migrations, which hand revenue on, every host is paid for its own
\* usage (billingService.ts:31-108, 140-159).
RevenueFollowsUsage ==
    /\ \A w \in Workload : Gross(w, DOMAIN earnings[w]) <= Cost(w, Seconds(w))
    /\ moves = 0 => HostReceivesItsRevenue

================================================================================
