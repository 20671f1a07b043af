----------------------------- MODULE RaqsacOutage -----------------------------
(***************************************************************************)
(* RaqsacTransport with a receiving host that may stop or crash, and start *)
(* again.  reset() deletes every connection and forgets the table, and     *)
(* leaves the request timer as it is and requestCONNMap with pointers to   *)
(* the deleted connections.  The sinks of the host do not take part in     *)
(* lifecycle operations, so that nothing listens after a restart.  The     *)
(* receiver and requestCONNMap of deleted connections are kept as they     *)
(* were: nothing but the pacer reads them any more.                        *)
(***************************************************************************)
EXTENDS RaqsacTransport

CONSTANT MaxOutages    \* bound: how often the receiving host stops or crashes
ASSUME OutagesAssumption == MaxOutages \in Nat

VARIABLES
    operational,  \* the receiving host's module is up
    outages,      \* how often it went down
    deleted,      \* its connections were deleted by reset()
    busy,         \* history: one in requestCONNMap was not finished then
    late,         \* history: the connections that entered requestCONNMap after
                  \* the host had lost its timer
    failure       \* the simulation ended: a timer for a module that is down, or
                  \* for connections that no longer exist

lifecycle == <<operational, outages, deleted, busy, failure>>

OutageInit ==
    /\ Init
    /\ operational = TRUE
    /\ outages = 0
    /\ deleted = FALSE
    /\ busy = FALSE
    /\ late = {}
    /\ failure = FALSE

(* handleStopOperation and handleCrashOperation of class Raqsac, reset().   *)
GoDown ==
    /\ operational /\ outages < MaxOutages
    /\ operational' = FALSE
    /\ outages' = outages + 1
    /\ deleted' = TRUE
    /\ busy' = (busy \/ (~deleted /\ ~AllConnFinished(pacer, receiver)))
    /\ UNCHANGED <<failure, vars>>

(* handleStartOperation does nothing of its own.                           *)
GoUp ==
    /\ ~operational
    /\ operational' = TRUE
    /\ UNCHANGED <<outages, deleted, busy, failure, vars>>

(* A packet for a deleted connection: the module is down, or finds no      *)
(* connection and drops the packet in segmentArrivalWhileClosed.           *)
DropSymbol(c, esi) ==
    /\ deleted
    /\ esi \in data[c]
    /\ data' = [data EXCEPT ![c] = @ \ {esi}]
    /\ UNCHANGED <<sender, receiver, pacer, headers, pulls, discarded, decoding>>

DropHeader(c, esi) ==
    /\ deleted
    /\ esi \in headers[c]
    /\ headers' = [headers EXCEPT ![c] = @ \ {esi}]
    /\ UNCHANGED <<sender, receiver, pacer, data, pulls, discarded, decoding>>

ArriveOrDrop(c) ==
    \/ ~deleted /\ \E esi \in data[c] : RcvSymbol(c, esi)
    \/ ~deleted /\ \E esi \in headers[c] : RcvHeader(c, esi)
    \/ \E esi \in data[c] : DropSymbol(c, esi)
    \/ \E esi \in headers[c] : DropHeader(c, esi)

(* The timer of connections that were deleted expires: a self message for a*)
(* module that is down is an error, and process_REQUEST_TIMER of one that  *)
(* is up follows the pointers of requestCONNMap.                           *)
TimerOfDeleted ==
    /\ deleted /\ pacer.timer = "scheduled"
    /\ pacer' = [pacer EXCEPT !.timer = "idle"]
    /\ failure' = TRUE
    /\ UNCHANGED <<operational, outages, deleted, busy>>
    /\ UNCHANGED <<sender, receiver, data, headers, pulls, discarded, decoding>>

Transfers(c) ==
    \/ SendInitialWindow(c)
    \/ \E pull \in pulls[c] : RcvPull(c, pull)
    \/ ArriveOrDrop(c)
    \/ Network(c)

Expires == ~deleted /\ TimerExpires

(* Who registers while the timer is lost is late.                          *)
RecordLate ==
    late' = IF pacer.timer = "lost"
            THEN late \cup (Registered(pacer') \ Registered(pacer))
            ELSE late

OutageNext ==
    /\ ~failure
    /\ \/ (\E c \in Conns : Transfers(c)) /\ UNCHANGED lifecycle
       \/ Expires /\ UNCHANGED lifecycle
       \/ TimerOfDeleted
       \/ GoDown
       \/ GoUp
    /\ RecordLate

OutageVars == <<vars, lifecycle, late>>

Undisturbed == ~failure /\ UNCHANGED lifecycle /\ RecordLate

(* As for RaqsacTransport; nothing makes a host stop, crash or start.      *)
OutageFairness ==
    /\ \A c \in Conns :
        /\ WF_OutageVars(SendInitialWindow(c) /\ Undisturbed)
        /\ WF_OutageVars((\E pull \in pulls[c] : RcvPull(c, pull)) /\ Undisturbed)
        /\ WF_OutageVars(ArriveOrDrop(c) /\ Undisturbed)
    /\ WF_OutageVars(Expires /\ Undisturbed)
    /\ WF_OutageVars(TimerOfDeleted /\ ~failure /\ RecordLate)

OutageSpec == OutageInit /\ [][OutageNext]_OutageVars /\ OutageFairness

-----------------------------------------------------------------------------
(* Properties.                                                             *)

(* Until the first outage, the pulls of an unfinished connection wait for  *)
(* a timer that runs, if the connection registered while the host had its  *)
(* timer: the timer is cancelled only when all who are registered are      *)
(* finished.  The pulls of a connection that registers after that wait for *)
(* a timer that is lost and will not run again.                            *)
PacerAliveUntilOutage ==
    ~deleted =>
        \A c \in Conns :
            receiver[c].pullQueue # <<>> /\ ~receiver[c].connFinished =>
                pacer.timer = IF c \in late THEN "lost" ELSE "scheduled"

(* The waiting pulls of a connection that registered while the host had    *)
(* its timer are eventually sent, unless the connection finishes or an     *)
(* outage deletes it.                                                      *)
PullsServed ==
    \A c \in Conns :
        receiver[c].pullQueue # <<>> /\ c \notin late ~>
            (\/ receiver[c].pullQueue = <<>>
             \/ receiver[c].connFinished
             \/ deleted)

(* An outage ends the simulation only if it hits the host with a transfer  *)
(* unfinished: the connection that finishes last stops the timer, and a    *)
(* symbol that still arrives does not start it again.  A trimmed header    *)
(* may: it asks for a pull whether or not its connection is finished.      *)
(* That takes a connection with a second header, one that came after the   *)
(* header for which two more symbols were wanted.                          *)
FinishedHostSurvives ==
    failure => \/ busy
               \/ \E c \in Conns : /\ receiver[c].connFinished
                                   /\ receiver[c].numRcvTrimmedHeader >= 2
=============================================================================
