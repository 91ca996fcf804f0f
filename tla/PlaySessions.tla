---------------------------- MODULE PlaySessions ----------------------------
(***************************************************************************)
(* The play sessions of the training cases: a row with the state after its *)
(* last event, and a log of the events.                                    *)
(*                                                                         *)
(* A client starts a session under a key of its own, and sends each event  *)
(* with an idempotency key and the revision it was decided at; when it     *)
(* gets no answer it sends the same event again, from this tab or another. *)
(* The row and its event go in by one D1 batch, in which the event finds   *)
(* the updated row by its status, its revision and its time stamp, to the  *)
(* millisecond.                                                            *)
(***************************************************************************)
EXTENDS Integers, Sequences, FiniteSets

CONSTANTS
    Workers,          \* requests in flight
    Users,            \* a user and the case version played
    SessionKeys,
    EventIds,         \* idempotency keys of events
    MaxEvents,        \* MAX_SESSION_REVISION
    MaxPlayFaults     \* bound: failed batches and lost answers

VARIABLES
    session,      \* play_sessions
    log,          \* play_events
    play,         \* what each request in flight holds in memory
    acked,        \* the requests that were answered with success
    playFaults    \* faults so far

playVars == <<session, log, play, acked, playFaults>>

\* A decision or an advance of the clock that goes on, one that reaches an outcome, and the end
\* of a session without one.
Commands == {"decide", "advance", "finish", "abandon"}

PlayConstants == MaxEvents \in Nat /\ MaxPlayFaults \in Nat

\* state is what the commands so far led to.
Sessions == [by : Users, status : {"active", "completed", "abandoned"},
             revision : 0 .. MaxEvents, state : Seq(Commands)]
NoSession == [status |-> "none"]

StartRequests == [key : SessionKeys, by : Users, command : {"start"}]
EventRequests == [key : SessionKeys, by : Users, command : Commands, id : EventIds,
                  expected : 0 .. MaxEvents]

LogRows == [key : SessionKeys, id : EventIds \cup {"start"}, sequence : 0 .. MaxEvents,
            command : Commands \cup {"start"}]

Resting == [pc |-> "idle", asked |-> NoSession, row |-> NoSession]

-----------------------------------------------------------------------------

In(w, pc) == play[w].pc = pc
Asked(w) == play[w].asked
Row(w) == session[Asked(w).key]
Hold(w, pc, q, row) == play' = [play EXCEPT ![w] = [pc |-> pc, asked |-> q, row |-> row]]
Move(w, pc) == Hold(w, pc, Asked(w), play[w].row)
Refuse(w) == play' = [play EXCEPT ![w] = Resting] /\ UNCHANGED acked
Accept(w) == play' = [play EXCEPT ![w] = Resting] /\ acked' = acked \cup {Asked(w)}

Risk == playFaults < MaxPlayFaults /\ playFaults' = playFaults + 1

\* The caller's own session under the key.
Own(w) == Row(w).status # "none" /\ Row(w).by = Asked(w).by

Logged(w) == {e \in log : e.key = Asked(w).key /\ e.id = Asked(w).id}

\* The event as the request would write it.
EventOf(q) ==
    [key |-> q.key, id |-> q.id, sequence |-> q.expected + 1, command |-> q.command]

After(command) ==
    CASE command = "finish" -> "completed" [] command = "abandon" -> "abandoned"
      [] OTHER -> "active"

-----------------------------------------------------------------------------

SendStart(w) ==
    /\ In(w, "idle")
    /\ \E q \in StartRequests : Hold(w, "start", q, NoSession)
    /\ UNCHANGED <<session, log, acked, playFaults>>

\* One batch inserts the row unless the key is taken, and the start event of the caller's own
\* session unless it is there; without such a session the event has no parent, and aborts.
Start(w) ==
    /\ In(w, "start")
    /\ LET q == Asked(w)
           new == [by |-> q.by, status |-> "active", revision |-> 0, state |-> <<>>]
           first == [key |-> q.key, id |-> "start", sequence |-> 0, command |-> "start"]
       IN  /\ IF Row(w).status = "none"
              THEN session' = [session EXCEPT ![q.key] = new] /\ log' = log \cup {first}
              ELSE UNCHANGED <<session, log>>
           /\ Move(w, "started")
    /\ UNCHANGED <<acked, playFaults>>

\* Whether the batch returned or threw, the row under the key decides: the caller's own session
\* with its start event is a success, another's a conflict.
Started(w) ==
    /\ In(w, "started")
    /\ IF Own(w) THEN Accept(w) ELSE Refuse(w)
    /\ UNCHANGED <<session, log, playFaults>>

-----------------------------------------------------------------------------

\* The row is read.  A client cannot expect a revision that was not there yet.
Send(w) ==
    /\ In(w, "idle")
    /\ \E q \in EventRequests :
          /\ session[q.key].status # "none" /\ session[q.key].by = q.by
          /\ q.expected <= session[q.key].revision
          /\ Hold(w, "event", q, session[q.key])
    /\ UNCHANGED <<session, log, acked, playFaults>>

\* An event with this id: the very same request is answered again, any other is a conflict.
\* Otherwise the row read must be active and at the expected revision, below the limit.
Check(w) ==
    /\ In(w, "event")
    /\ LET q == Asked(w)
           row == play[w].row
       IN  IF Logged(w) # {}
           THEN IF EventOf(q) \in log THEN Accept(w) ELSE Refuse(w)
           ELSE /\ UNCHANGED acked
                /\ IF /\ row.status = "active" /\ row.revision = q.expected
                      /\ q.expected < MaxEvents
                   THEN Move(w, "batch") ELSE play' = [play EXCEPT ![w] = Resting]
    /\ UNCHANGED <<session, log, playFaults>>

\* The rules of the case do not allow the command in the state read.
Blocked(w) ==
    /\ In(w, "batch") /\ Asked(w).command # "abandon"
    /\ Refuse(w)
    /\ UNCHANGED <<session, log, playFaults>>

\* Mistaken: only the id of an event is unique.
NewId(w) == Logged(w) = {}

\* The unique indexes of play_events.
NewEvent(w) ==
    /\ Logged(w) = {}
    /\ \A e \in log : e.key = Asked(w).key => e.sequence # Asked(w).expected + 1

\* One batch: the row moves on where it is active at the expected revision, and the event is
\* inserted under the row that has the status, revision and time stamp it was to get.  When the
\* row was moved on by another request in the same millisecond (tie), it is found as well.
Batch(w, tie) ==
    /\ In(w, "batch")
    /\ LET q == Asked(w)
           was == play[w].row
           hit == Row(w).status = "active" /\ Row(w).revision = q.expected
           parent == \/ hit
                     \/ tie /\ Row(w).revision = q.expected + 1
                            /\ Row(w).status = After(q.command)
           moved == [by |-> was.by, status |-> After(q.command), revision |-> q.expected + 1,
                     state |-> IF q.command = "abandon" THEN was.state
                               ELSE Append(was.state, q.command)]
           done == parent /\ NewEvent(w)
       IN  /\ IF done /\ hit THEN session' = [session EXCEPT ![q.key] = moved]
              ELSE UNCHANGED session
           /\ log' = IF done THEN log \cup {EventOf(q)} ELSE log
           /\ Move(w, "settle")
    /\ UNCHANGED <<acked, playFaults>>

\* Mistaken: the revision that was to be reached is taken for success.
SettleByRevision(w) ==
    /\ In(w, "settle")
    /\ IF Row(w).revision > Asked(w).expected THEN Accept(w) ELSE Refuse(w)
    /\ UNCHANGED <<session, log, playFaults>>

\* After the batch, whether it returned or threw, row and event are read again: the event itself
\* is a success, an event with its id that differs a conflict, a row that moved on is stale, and
\* otherwise the client is asked to send the event again.
Settle(w) ==
    /\ In(w, "settle")
    /\ IF EventOf(Asked(w)) \in log THEN Accept(w) ELSE Refuse(w)
    /\ UNCHANGED <<session, log, playFaults>>

\* A batch throws and nothing of it was applied.
BatchFails(w) ==
    /\ Risk
    /\ \/ In(w, "start") /\ Move(w, "started")
       \/ In(w, "batch") /\ Move(w, "settle")
    /\ UNCHANGED <<session, log, acked>>

\* The connection is gone, the Worker stops, or a read throws: no answer.
Drop(w) ==
    /\ Risk
    /\ ~In(w, "idle")
    /\ Refuse(w)
    /\ UNCHANGED <<session, log>>

-----------------------------------------------------------------------------

PlayInit ==
    /\ session = [k \in SessionKeys |-> NoSession]
    /\ log = {}
    /\ play = [w \in Workers |-> Resting]
    /\ acked = {}
    /\ playFaults = 0

PlayNext ==
    \E w \in Workers :
        \/ SendStart(w) \/ Start(w) \/ Started(w)
        \/ Send(w) \/ Check(w) \/ Blocked(w)
        \/ \E tie \in BOOLEAN : Batch(w, tie)
        \/ Settle(w) \/ BatchFails(w) \/ Drop(w)

PlaySpec == PlayInit /\ [][PlayNext]_playVars

-----------------------------------------------------------------------------

PlayTypeOK ==
    /\ session \in [SessionKeys -> Sessions \cup {NoSession}]
    /\ log \subseteq LogRows
    /\ \A w \in Workers :
          /\ play[w].pc \in {"idle", "start", "started", "event", "batch", "settle"}
          /\ ~In(w, "idle") => Asked(w) \in StartRequests \cup EventRequests
    /\ acked \subseteq StartRequests \cup EventRequests
    /\ playFaults \in 0 .. MaxPlayFaults

\* The log of a session has one event for each revision up to the row's own, and replaying its
\* commands gives the row's state: no request, sent twice or from two tabs in one millisecond,
\* leaves an event without its effect or an effect without its event.
StateIsLog ==
    \A k \in SessionKeys :
        LET events == {e \in log : e.key = k}
            row == session[k]
        IN  IF row.status = "none" THEN events = {}
            ELSE /\ Cardinality(events) = row.revision + 1
                 /\ Len(row.state) = row.revision - (IF row.status = "abandoned" THEN 1 ELSE 0)
                 /\ \A n \in 0 .. row.revision :
                       \E e \in events :
                          /\ e.sequence = n
                          /\ n = 0 => e.command = "start"
                          /\ n > 0 => \/ n <= Len(row.state) /\ row.state[n] = e.command
                                      \/ /\ n = row.revision /\ e.command = "abandon"
                                         /\ row.status = "abandoned"

\* What a client was told is done stays done: an event answered with success is in the log as it
\* was sent, at the revision after the one expected, and a started session is the caller's own.
AckedIsDone ==
    \A q \in acked :
        IF q.command = "start" THEN session[q.key].by = q.by
        ELSE EventOf(q) \in log
=============================================================================
