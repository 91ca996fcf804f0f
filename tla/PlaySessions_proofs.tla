------------------------ MODULE PlaySessions_proofs ------------------------
(***************************************************************************)
(* The row of a play session and its log agree, for every number of        *)
(* requests, users, sessions and events, ties of the time stamp included.  *)
(***************************************************************************)
EXTENDS PlaySessions, FiniteSetTheorems, TLAPS

\* What StateIsLog says of one row and its events.
Told(row, events) ==
    IF row.status = "none" THEN events = {}
    ELSE /\ Cardinality(events) = row.revision + 1
         /\ Len(row.state) = row.revision - (IF row.status = "abandoned" THEN 1 ELSE 0)
         /\ \A n \in 0 .. row.revision :
               \E e \in events :
                  /\ e.sequence = n
                  /\ n = 0 => e.command = "start"
                  /\ n > 0 => \/ n <= Len(row.state) /\ row.state[n] = e.command
                              \/ /\ n = row.revision /\ e.command = "abandon"
                                 /\ row.status = "abandoned"

EventsOf(k) == {e \in log : e.key = k}

RowsTold == \A k \in SessionKeys : IsFiniteSet(EventsOf(k)) /\ Told(session[k], EventsOf(k))

Holds == [pc : {"idle", "start", "started", "event", "batch", "settle"},
          asked : StartRequests \cup EventRequests \cup {NoSession},
          row : Sessions \cup {NoSession}]

\* What a request holds in memory fits the table: a row that it read is still the row, unless the
\* row has a higher revision; before the batch it is active, and at the revision expected.
Seen(h, rows) ==
    /\ h \in Holds
    /\ h.pc \in {"start", "started"} => h.asked \in StartRequests
    /\ h.pc \in {"event", "batch", "settle"} => h.asked \in EventRequests
    /\ h.pc \in {"event", "batch"} =>
          /\ h.row \in Sessions /\ rows[h.asked.key] \in Sessions
          /\ h.row.revision <= rows[h.asked.key].revision
          /\ h.row.revision = rows[h.asked.key].revision => rows[h.asked.key] = h.row
    /\ h.pc = "batch" => /\ h.row.status = "active" /\ h.row.revision = h.asked.expected
                         /\ h.asked.expected < MaxEvents

RowsSeen == play \in [Workers -> Holds] /\ \A w \in Workers : Seen(play[w], session)

\* Answers given: a started session is there, and the caller's own.
AnswersTrue ==
    \A q \in acked : IF q.command = "start"
                     THEN session[q.key].status # "none" /\ session[q.key].by = q.by
                     ELSE EventOf(q) \in log

Tables == /\ session \in [SessionKeys -> Sessions \cup {NoSession}]
          /\ log \subseteq LogRows
          /\ acked \subseteq StartRequests \cup EventRequests
          /\ playFaults \in 0 .. MaxPlayFaults

PlayInv == Tables /\ RowsTold /\ RowsSeen /\ AnswersTrue

-----------------------------------------------------------------------------

\* An event that moves an active row on, put in its log, keeps the two together: the log has one
\* event more, with the sequence after the last.
LEMMA ToldNext ==
    ASSUME PlayConstants, NEW row \in Sessions, NEW events, IsFiniteSet(events), Told(row, events),
           row.status = "active", NEW command \in Commands, NEW e, e \notin events,
           e.sequence = row.revision + 1, e.command = command,
           NEW next \in Sessions, next.status = After(command), next.revision = row.revision + 1,
           next.state = IF command = "abandon" THEN row.state ELSE Append(row.state, command)
    PROVE  IsFiniteSet(events \cup {e}) /\ Told(next, events \cup {e})
<1>1. /\ IsFiniteSet(events \cup {e})
      /\ Cardinality(events \cup {e}) = row.revision + 2
  <2>1. Cardinality(events) = row.revision + 1
    BY DEF Told
  <2>2. /\ IsFiniteSet(events \cup {e})
        /\ Cardinality(events \cup {e}) = Cardinality(events) + 1
    BY FS_AddElement
  <2>3. row.revision \in Nat
    BY DEF Sessions
  <2>4. QED BY <2>1, <2>2, <2>3
<1>2. next.status # "none"
  BY DEF Sessions
<1>3. Len(next.state) = next.revision - (IF next.status = "abandoned" THEN 1 ELSE 0)
  BY DEF Told, Sessions, After, Commands
<1>4. ASSUME NEW n \in 0 .. next.revision
      PROVE  \E d \in events \cup {e} :
                  /\ d.sequence = n
                  /\ n = 0 => d.command = "start"
                  /\ n > 0 => \/ n <= Len(next.state) /\ next.state[n] = d.command
                              \/ /\ n = next.revision /\ d.command = "abandon"
                                 /\ next.status = "abandoned"
  <2>1. CASE n = row.revision + 1
    BY <2>1, <1>3 DEF Told, Sessions, After, Commands
  <2>2. CASE n \in 0 .. row.revision
    <3>1. PICK d \in events :
                  /\ d.sequence = n
                  /\ n = 0 => d.command = "start"
                  /\ n > 0 => n <= Len(row.state) /\ row.state[n] = d.command
      BY <2>2 DEF Told
    <3>2. n > 0 => n <= Len(next.state) /\ next.state[n] = row.state[n]
      BY <3>1, <2>2 DEF Sessions
    <3>3. QED BY <3>1, <3>2
  <2>3. QED BY <2>1, <2>2 DEF Sessions
<1>5. QED BY <1>1, <1>2, <1>3, <1>4 DEF Told, Sessions

-----------------------------------------------------------------------------

\* The tables stay as they are.
Quiet == UNCHANGED <<session, log>>

\* The invariant holds at the start.
LEMMA InitInv == ASSUME PlayConstants PROVE PlayInit => PlayInv
<1> SUFFICES ASSUME PlayInit PROVE PlayInv
    OBVIOUS
<1> USE DEF PlayConstants, PlayInit
<1>1. Tables
  BY DEF Tables
<1>2. RowsTold
  BY FS_EmptySet DEF RowsTold, EventsOf, Told, NoSession
<1>3. RowsSeen /\ AnswersTrue
  BY DEF RowsSeen, Seen, Holds, AnswersTrue, Resting
<1>4. QED BY <1>1, <1>2, <1>3 DEF PlayInv

\* A request holds something else; the others hold what they held.
LEMMA HoldStep ==
    ASSUME RowsSeen, NEW w \in Workers, NEW h, play' = [play EXCEPT ![w] = h],
           Seen(h, session'), \A v \in Workers : Seen(play[v], session')
    PROVE  RowsSeen'
<1>1. play'[w] = h /\ \A v \in Workers \ {w} : play'[v] = play[v]
  BY DEF RowsSeen
<1>2. h \in Holds
  BY DEF Seen
<1>3. play' \in [Workers -> Holds]
  BY <1>2 DEF RowsSeen
<1>4. ASSUME NEW v \in Workers PROVE Seen(play'[v], session')
  <2>1. CASE v = w
    BY <2>1, <1>1
  <2>2. CASE v # w
    BY <2>2, <1>1
  <2>3. QED BY <2>1, <2>2
<1>5. QED BY <1>3, <1>4 DEF RowsSeen

\* A step that leaves the tables alone: only what one request holds, and what was answered.
LEMMA QuietStep ==
    ASSUME PlayConstants, PlayInv, NEW w \in Workers, Quiet, NEW h,
           play' = [play EXCEPT ![w] = h], Seen(h, session),
           acked' \subseteq StartRequests \cup EventRequests,
           playFaults' \in 0 .. MaxPlayFaults, AnswersTrue'
    PROVE  PlayInv'
<1> USE DEF PlayInv, Quiet
<1>1. Tables'
  BY DEF Tables
<1>2. RowsTold'
  BY DEF RowsTold, EventsOf
<1>3. \A v \in Workers : Seen(play[v], session')
  BY DEF RowsSeen
<1>4. RowsSeen'
  BY <1>3, HoldStep
<1>5. QED BY <1>1, <1>2, <1>4

\* A row that is made, or moved on to a higher revision, leaves true what the requests hold.
LEMMA RowsGrow ==
    ASSUME Tables, RowsSeen, NEW k \in SessionKeys, NEW new \in Sessions,
           session' = [session EXCEPT ![k] = new],
           session[k] \in Sessions => session[k].revision < new.revision
    PROVE  \A v \in Workers : Seen(play[v], session')
<1>1. session'[k] = new /\ \A j \in SessionKeys \ {k} : session'[j] = session[j]
  BY DEF Tables
<1> SUFFICES ASSUME NEW v \in Workers, play[v].pc \in {"event", "batch"}
             PROVE  /\ session'[play[v].asked.key] \in Sessions
                    /\ play[v].row.revision <= session'[play[v].asked.key].revision
                    /\ play[v].row.revision = session'[play[v].asked.key].revision
                          => session'[play[v].asked.key] = play[v].row
    BY DEF RowsSeen, Seen
<1> DEFINE h == play[v]
<1>2. Seen(h, session)
  BY DEF RowsSeen
<1> HIDE DEF h
<1>3. /\ h.pc \in {"event", "batch"} /\ h.asked.key \in SessionKeys
      /\ h.row.revision \in Nat /\ h.row.revision <= session[h.asked.key].revision
  BY <1>2 DEF Seen, EventRequests, Sessions, h
<1>4. CASE h.asked.key = k
  <2>1. session[k] \in Sessions /\ session[k].revision \in Nat /\ new.revision \in Nat
    BY <1>2, <1>3, <1>4 DEF Seen, Sessions
  <2>2. h.row.revision < new.revision
    BY <2>1, <1>3, <1>4
  <2>3. QED BY <1>1, <1>3, <1>4, <2>1, <2>2 DEF h
<1>5. CASE h.asked.key # k
  BY <1>1, <1>2, <1>3, <1>5 DEF Seen, h
<1>6. QED BY <1>4, <1>5

\* What a request that rests holds.
LEMMA RestingSeen == ASSUME NEW rows PROVE Seen(Resting, rows)
BY DEF Seen, Resting, Holds

\* Answers given stay true while nothing is taken from the tables.
LEMMA AnswerKept ==
    ASSUME AnswersTrue, UNCHANGED acked, log \subseteq log',
           \A k \in SessionKeys : session[k].status # "none"
               => session'[k].status # "none" /\ session'[k].by = session[k].by,
           Tables
    PROVE  AnswersTrue'
BY DEF AnswersTrue, EventOf, Tables, StartRequests, EventRequests

\* The first request under a key makes the row, with its start event.
LEMMA StartStep ==
    ASSUME PlayConstants, PlayInv, NEW w \in Workers, Start(w)
    PROVE  PlayInv'
<1> USE DEF PlayConstants
<1> DEFINE q == Asked(w)
           new == [by |-> q.by, status |-> "active", revision |-> 0, state |-> <<>>]
           first == [key |-> q.key, id |-> "start", sequence |-> 0, command |-> "start"]
           h == [pc |-> "started", asked |-> q, row |-> play[w].row]
<1>1. Seen(play[w], session) /\ q \in StartRequests /\ q.key \in SessionKeys
  BY DEF PlayInv, RowsSeen, Seen, Start, In, Asked, StartRequests
<1>2. \A rows : Seen(h, rows)
  BY <1>1 DEF Seen, Holds, Asked
<1>3. play' = [play EXCEPT ![w] = h] /\ UNCHANGED <<acked, playFaults>>
  BY DEF Start, Move, Hold
<1>4. new \in Sessions /\ first \in LogRows
  BY <1>1 DEF Sessions, LogRows, StartRequests
<1> HIDE DEF h
<1>5. CASE Row(w).status # "none"
  <2>1. Quiet
    BY <1>5 DEF Start, Quiet
  <2>2. AnswersTrue'
    BY <2>1, <1>3 DEF AnswersTrue, Quiet, PlayInv, EventOf
  <2>3. QED BY <2>1, <2>2, <1>2, <1>3, QuietStep DEF PlayInv, Tables
<1>6. CASE Row(w).status = "none"
  <2>1. session' = [session EXCEPT ![q.key] = new] /\ log' = log \cup {first}
    BY <1>6 DEF Start
  <2>2. session[q.key] = NoSession /\ EventsOf(q.key) = {}
    BY <1>1, <1>6 DEF PlayInv, Tables, RowsTold, Told, Row, Sessions
  <2>3. session'[q.key] = new /\ \A j \in SessionKeys \ {q.key} : session'[j] = session[j]
    BY <1>1, <2>1 DEF PlayInv, Tables
  <2>4. first.key = q.key /\ first.sequence = 0 /\ first.command = "start"
    OBVIOUS
  <2>n. /\ new.status = "active" /\ new.revision = 0 /\ new.state = <<>>
        /\ new.by = q.by
    OBVIOUS
  <2> HIDE DEF new, first
  <2>5. Tables'
    BY <1>1, <1>3, <1>4, <2>1 DEF PlayInv, Tables
  <2>6. RowsTold'
    <3> SUFFICES ASSUME NEW k \in SessionKeys
                 PROVE  IsFiniteSet(EventsOf(k)') /\ Told(session'[k], EventsOf(k)')
        BY DEF RowsTold
    <3>1. CASE k = q.key
      <4>1. EventsOf(k)' = {first}
        BY <3>1, <2>1, <2>2, <2>4 DEF EventsOf
      <4>2. IsFiniteSet({first}) /\ Cardinality({first}) = 1
        BY FS_Singleton
      <4>3. Len(<<>>) = 0
        OBVIOUS
      <4>4. Told(new, {first})
        BY <4>2, <4>3, <2>4, <2>n DEF Told
      <4>5. QED BY <4>1, <4>2, <4>4, <3>1, <2>3
    <3>2. CASE k # q.key
      <4>1. EventsOf(k)' = EventsOf(k)
        BY <3>2, <2>1, <2>4 DEF EventsOf
      <4>2. QED BY <4>1, <3>2, <2>3 DEF PlayInv, RowsTold
    <3>3. QED BY <3>1, <3>2
  <2>7. \A v \in Workers : Seen(play[v], session')
    <3>1. session[q.key] \notin Sessions
      BY <2>2 DEF NoSession, Sessions
    <3>2. QED BY <3>1, <2>1, <1>1, <1>4, RowsGrow DEF PlayInv
  <2>8. RowsSeen'
    BY <2>7, <1>2, <1>3, HoldStep DEF PlayInv
  <2>9. AnswersTrue'
    <3>1. \A k \in SessionKeys : session[k].status # "none"
               => session'[k].status # "none" /\ session'[k].by = session[k].by
      BY <2>2, <2>3 DEF NoSession
    <3>2. QED BY <3>1, <2>1, <1>3, AnswerKept DEF PlayInv
  <2>10. QED BY <2>5, <2>6, <2>8, <2>9 DEF PlayInv
<1>7. QED BY <1>5, <1>6

\* The batch of an event.  A row that another request moved on in the same millisecond is found by
\* its time stamp, but its log has the event with that sequence, and the batch aborts; a row that
\* is hit is the row that was read.
LEMMA BatchStep ==
    ASSUME PlayConstants, PlayInv, NEW w \in Workers, NEW tie \in BOOLEAN, Batch(w, tie)
    PROVE  PlayInv'
<1> USE DEF PlayConstants
<1> DEFINE q == Asked(w)
           was == play[w].row
           hit == Row(w).status = "active" /\ Row(w).revision = q.expected
           parent == \/ hit
                     \/ tie /\ Row(w).revision = q.expected + 1
                            /\ Row(w).status = After(q.command)
           moved == [by |-> was.by, status |-> After(q.command), revision |-> q.expected + 1,
                     state |-> IF q.command = "abandon" THEN was.state
                               ELSE Append(was.state, q.command)]
           done == parent /\ NewEvent(w)
           h == [pc |-> "settle", asked |-> q, row |-> play[w].row]
<1>1. /\ Seen(play[w], session) /\ In(w, "batch")
      /\ q \in EventRequests /\ q.key \in SessionKeys /\ q.command \in Commands
      /\ q.expected \in Nat /\ q.expected < MaxEvents
      /\ was \in Sessions /\ was.status = "active" /\ was.revision = q.expected
      /\ session[q.key] \in Sessions /\ session[q.key].revision \in Nat
      /\ was.revision = session[q.key].revision => session[q.key] = was
  BY DEF PlayInv, RowsSeen, Seen, Batch, In, Asked, EventRequests, Sessions
<1>2. \A rows : Seen(h, rows)
  BY <1>1 DEF Seen, Holds, Asked
<1>3. play' = [play EXCEPT ![w] = h] /\ UNCHANGED <<acked, playFaults>>
  BY DEF Batch, Move, Hold
<1> HIDE DEF h
<1>4. CASE ~done
  <2>1. Quiet
    BY <1>4 DEF Batch, Quiet
  <2>2. AnswersTrue'
    BY <2>1, <1>3 DEF AnswersTrue, Quiet, PlayInv, EventOf
  <2>3. QED BY <2>1, <2>2, <1>2, <1>3, QuietStep DEF PlayInv, Tables
<1>5. CASE done
  <2>1. IsFiniteSet(EventsOf(q.key)) /\ Told(session[q.key], EventsOf(q.key))
    BY <1>1 DEF PlayInv, RowsTold
  <2>2. hit
    <3> SUFFICES ASSUME session[q.key].revision = q.expected + 1 PROVE FALSE
        BY <1>5 DEF Row
    <3>1. session[q.key].status # "none" /\ q.expected + 1 \in 0 .. session[q.key].revision
      BY <1>1 DEF Sessions
    <3>2. PICK e \in EventsOf(q.key) : e.sequence = q.expected + 1
      BY <3>1, <2>1 DEF Told
    <3>3. QED BY <3>2, <1>5 DEF NewEvent, EventsOf
  <2>3. session[q.key] = was
    BY <2>2, <1>1 DEF Row
  <2>4. session' = [session EXCEPT ![q.key] = moved] /\ log' = log \cup {EventOf(q)}
    BY <1>5, <2>2 DEF Batch
  <2>5. moved \in Sessions
    <3>1. After(q.command) \in {"active", "completed", "abandoned"}
      BY DEF After
    <3>2. q.expected + 1 \in 0 .. MaxEvents
      BY <1>1
    <3>3. was.by \in Users /\ was.state \in Seq(Commands)
      BY <1>1 DEF Sessions
    <3>4. (IF q.command = "abandon" THEN was.state ELSE Append(was.state, q.command)) \in Seq(Commands)
      BY <3>3, <1>1
    <3>5. QED BY <3>1, <3>2, <3>3, <3>4 DEF Sessions
  <2>6. /\ moved.by = was.by /\ moved.status = After(q.command)
        /\ moved.revision = was.revision + 1
        /\ moved.state = IF q.command = "abandon" THEN was.state ELSE Append(was.state, q.command)
    BY <1>1
  <2> HIDE DEF moved
  <2>7. session'[q.key] = moved /\ \A j \in SessionKeys \ {q.key} : session'[j] = session[j]
    BY <1>1, <2>4 DEF PlayInv, Tables
  <2>8. /\ EventOf(q) \in LogRows /\ EventOf(q) \notin EventsOf(q.key)
        /\ EventOf(q).key = q.key
        /\ EventOf(q).sequence = was.revision + 1 /\ EventOf(q).command = q.command
    <3>1. EventOf(q) \notin log
      BY <1>5 DEF NewEvent, Logged, EventOf
    <3>2. EventOf(q) \in LogRows
      BY <1>1 DEF EventOf, LogRows, EventRequests
    <3>3. QED BY <3>1, <3>2, <1>1 DEF EventsOf, EventOf
  <2>9. Tables'
    BY <1>1, <1>3, <2>4, <2>5, <2>8 DEF PlayInv, Tables
  <2>10. RowsTold'
    <3> SUFFICES ASSUME NEW k \in SessionKeys
                 PROVE  IsFiniteSet(EventsOf(k)') /\ Told(session'[k], EventsOf(k)')
        BY DEF RowsTold
    <3>1. CASE k = q.key
      <4>1. EventsOf(k)' = EventsOf(q.key) \cup {EventOf(q)}
        BY <3>1, <2>4, <2>8 DEF EventsOf
      <4>2. Told(was, EventsOf(q.key))
        BY <2>1, <2>3
      <4>3. /\ IsFiniteSet(EventsOf(q.key) \cup {EventOf(q)})
            /\ Told(moved, EventsOf(q.key) \cup {EventOf(q)})
        BY <4>2, <2>1, <2>5, <2>6, <2>8, <1>1, ToldNext
      <4>4. QED BY <4>1, <4>3, <3>1, <2>7
    <3>2. CASE k # q.key
      <4>1. EventsOf(k)' = EventsOf(k)
        BY <3>2, <2>4, <2>8 DEF EventsOf
      <4>2. QED BY <4>1, <3>2, <2>7 DEF PlayInv, RowsTold
    <3>3. QED BY <3>1, <3>2
  <2>11. \A v \in Workers : Seen(play[v], session')
    <3>1. session[q.key].revision < moved.revision
      BY <2>3, <2>6, <1>1
    <3>2. QED BY <3>1, <2>4, <2>5, <1>1, RowsGrow DEF PlayInv
  <2>12. RowsSeen'
    BY <2>11, <1>2, <1>3, HoldStep DEF PlayInv
  <2>13. AnswersTrue'
    <3>1. moved.status # "none" /\ moved.by = session[q.key].by
      BY <2>3, <2>5, <2>6 DEF Sessions
    <3>2. \A k \in SessionKeys : session[k].status # "none"
               => session'[k].status # "none" /\ session'[k].by = session[k].by
      BY <3>1, <2>7
    <3>3. QED BY <3>2, <2>4, <1>3, AnswerKept DEF PlayInv
  <2>14. QED BY <2>9, <2>10, <2>12, <2>13 DEF PlayInv
<1>6. QED BY <1>4, <1>5

\* Every other step leaves the tables alone; success is answered where the table shows it.
LEMMA QuietNext ==
    ASSUME PlayConstants, PlayInv, NEW w \in Workers,
           \/ SendStart(w) \/ Started(w) \/ Send(w) \/ Check(w) \/ Blocked(w) \/ Settle(w)
           \/ BatchFails(w) \/ Drop(w)
    PROVE  PlayInv'
<1> USE DEF PlayConstants
<1>h. /\ Seen(play[w], session) /\ Seen(Resting, session)
      /\ Tables /\ RowsSeen /\ AnswersTrue
  BY RestingSeen DEF PlayInv, RowsSeen
<1>q. Quiet
  BY DEF SendStart, Started, Send, Check, Blocked, Settle, BatchFails, Drop, Quiet, Refuse, Accept
<1>f. playFaults' \in 0 .. MaxPlayFaults
  BY <1>h DEF SendStart, Started, Send, Check, Blocked, Settle, BatchFails, Drop, Risk, Tables
<1>1. ASSUME NEW h, play' = [play EXCEPT ![w] = h], Seen(h, session), UNCHANGED acked
      PROVE  PlayInv'
  <2>1. AnswersTrue'
    BY <1>1, <1>h, <1>q DEF AnswersTrue, EventOf, Quiet
  <2>2. acked' \subseteq StartRequests \cup EventRequests
    BY <1>1, <1>h DEF Tables
  <2>3. QED BY <1>1, <1>q, <1>f, <2>1, <2>2, QuietStep
<1>2. ASSUME Accept(w), Asked(w) \in StartRequests \cup EventRequests,
             IF Asked(w).command = "start"
             THEN session[Asked(w).key].status # "none" /\ session[Asked(w).key].by = Asked(w).by
             ELSE EventOf(Asked(w)) \in log
      PROVE  PlayInv'
  <2>1. play' = [play EXCEPT ![w] = Resting] /\ acked' = acked \cup {Asked(w)}
    BY <1>2 DEF Accept
  <2>2. AnswersTrue'
    <3> SUFFICES ASSUME NEW d \in acked'
                 PROVE IF d.command = "start"
                       THEN session[d.key].status # "none" /\ session[d.key].by = d.by
                       ELSE EventOf(d) \in log
        BY <1>q DEF AnswersTrue, EventOf, Quiet
    <3>1. CASE d \in acked
      BY <3>1, <1>h DEF AnswersTrue
    <3>2. CASE d = Asked(w)
      BY <3>2, <1>2
    <3>3. QED BY <3>1, <3>2, <2>1
  <2>3. acked' \subseteq StartRequests \cup EventRequests
    BY <1>2, <2>1, <1>h DEF Tables
  <2>4. QED BY <1>q, <1>f, <1>h, <2>1, <2>2, <2>3, QuietStep
<1>3. ASSUME Refuse(w) PROVE PlayInv'
  BY <1>3, <1>1, <1>h DEF Refuse
<1>4. CASE SendStart(w)
  <2>1. PICK q \in StartRequests : Hold(w, "start", q, NoSession)
    BY <1>4 DEF SendStart
  <2>2. Seen([pc |-> "start", asked |-> q, row |-> NoSession], session)
    BY DEF Seen, Holds
  <2>3. QED BY <1>1, <1>4, <2>1, <2>2 DEF SendStart, Hold
<1>5. CASE Started(w)
  <2>1. Asked(w) \in StartRequests /\ Asked(w).command = "start"
    BY <1>5, <1>h DEF Started, In, Seen, Asked, StartRequests
  <2>2. QED BY <2>1, <1>2, <1>3, <1>5 DEF Started, Own, Row
<1>6. CASE Send(w)
  <2>1. PICK q \in EventRequests : session[q.key].status # "none" /\ Hold(w, "event", q, session[q.key])
    BY <1>6 DEF Send
  <2>2. session[q.key] \in Sessions
    BY <2>1, <1>h DEF Tables, NoSession, EventRequests
  <2>3. Seen([pc |-> "event", asked |-> q, row |-> session[q.key]], session)
    BY <2>2 DEF Seen, Holds, Sessions
  <2>4. QED BY <1>1, <1>6, <2>1, <2>3 DEF Send, Hold
<1>7. CASE Check(w)
  <2>1. Asked(w) \in EventRequests /\ Asked(w).command # "start"
    BY <1>7, <1>h DEF Check, In, Seen, Asked, EventRequests, Commands
  <2>2. CASE Accept(w) /\ EventOf(Asked(w)) \in log
    BY <2>1, <2>2, <1>2
  <2>3. CASE Refuse(w)
    BY <2>3, <1>3
  <2>4. CASE UNCHANGED acked /\ play' = [play EXCEPT ![w] = Resting]
    BY <2>4, <1>1, <1>h
  <2>5. CASE /\ UNCHANGED acked /\ Move(w, "batch")
             /\ play[w].row.status = "active" /\ play[w].row.revision = Asked(w).expected
             /\ Asked(w).expected < MaxEvents
    <3>1. Seen([pc |-> "batch", asked |-> Asked(w), row |-> play[w].row], session)
      BY <2>5, <1>7, <1>h DEF Check, In, Seen, Holds, Asked
    <3>2. QED BY <2>5, <3>1, <1>1 DEF Move, Hold
  <2>6. QED BY <1>7, <2>2, <2>3, <2>4, <2>5 DEF Check
<1>8. CASE Blocked(w)
  BY <1>8, <1>3 DEF Blocked
<1>9. CASE Settle(w)
  <2>1. Asked(w) \in EventRequests /\ Asked(w).command # "start"
    BY <1>9, <1>h DEF Settle, In, Seen, Asked, EventRequests, Commands
  <2>2. QED BY <2>1, <1>2, <1>3, <1>9 DEF Settle
<1>10. CASE BatchFails(w)
  <2>1. CASE In(w, "start") /\ Move(w, "started")
    <3>1. Seen([pc |-> "started", asked |-> Asked(w), row |-> play[w].row], session)
      BY <2>1, <1>h DEF In, Seen, Holds, Asked
    <3>2. QED BY <1>10, <2>1, <3>1, <1>1 DEF BatchFails, Move, Hold
  <2>2. CASE In(w, "batch") /\ Move(w, "settle")
    <3>1. Seen([pc |-> "settle", asked |-> Asked(w), row |-> play[w].row], session)
      BY <2>2, <1>h DEF In, Seen, Holds, Asked
    <3>2. QED BY <1>10, <2>2, <3>1, <1>1 DEF BatchFails, Move, Hold
  <2>3. QED BY <1>10, <2>1, <2>2 DEF BatchFails
<1>11. CASE Drop(w)
  BY <1>11, <1>3 DEF Drop
<1>12. QED BY <1>4, <1>5, <1>6, <1>7, <1>8, <1>9, <1>10, <1>11

-----------------------------------------------------------------------------

\* Every step keeps the invariant.
LEMMA StepInv == ASSUME PlayConstants PROVE PlayInv /\ [PlayNext]_playVars => PlayInv'
<1> SUFFICES ASSUME PlayInv, [PlayNext]_playVars PROVE PlayInv'
    OBVIOUS
<1>1. CASE PlayNext
  <2>1. PICK w \in Workers :
            \/ SendStart(w) \/ Start(w) \/ Started(w)
            \/ Send(w) \/ Check(w) \/ Blocked(w)
            \/ \E tie \in BOOLEAN : Batch(w, tie)
            \/ Settle(w) \/ BatchFails(w) \/ Drop(w)
    BY <1>1 DEF PlayNext
  <2>2. CASE Start(w)
    BY <2>2, StartStep
  <2>3. CASE \E tie \in BOOLEAN : Batch(w, tie)
    BY <2>3, BatchStep
  <2>4. CASE \/ SendStart(w) \/ Started(w) \/ Send(w) \/ Check(w) \/ Blocked(w) \/ Settle(w)
             \/ BatchFails(w) \/ Drop(w)
    BY <2>4, QuietNext
  <2>5. QED BY <2>1, <2>2, <2>3, <2>4
<1>2. CASE UNCHANGED playVars
  <2>1. UNCHANGED <<session, log, play, acked, playFaults>>
    BY <1>2 DEF playVars
  <2>2. Tables' /\ RowsTold' /\ RowsSeen' /\ AnswersTrue'
    BY <2>1 DEF PlayInv, Tables, RowsTold, EventsOf, RowsSeen, AnswersTrue, EventOf
  <2>3. QED BY <2>2 DEF PlayInv
<1>3. QED BY <1>1, <1>2

\* The invariant holds in every reachable state.
THEOREM PlayInductive == ASSUME PlayConstants PROVE PlaySpec => []PlayInv
BY InitInv, StepInv, PTL DEF PlaySpec

\* The tables and what the requests hold keep their types.
THEOREM PlayTyped == ASSUME PlayConstants PROVE PlaySpec => []PlayTypeOK
<1>1. PlayInv => PlayTypeOK
  BY DEF PlayInv, Tables, RowsSeen, Seen, Holds, PlayTypeOK, In, Asked
<1>2. QED BY <1>1, PlayInductive, PTL

\* The log of a session replays to its row, whatever requests met: the row of each session is its
\* log's length, state and end (StateIsLog).
THEOREM RowsReplay == ASSUME PlayConstants PROVE PlaySpec => []StateIsLog
<1>1. PlayInv => StateIsLog
  BY DEF PlayInv, RowsTold, Told, EventsOf, StateIsLog
<1>2. QED BY <1>1, PlayInductive, PTL

\* What a client was told is done stays done: no later step takes an event out of a log or gives
\* a session to someone else.
THEOREM AnswersKept == ASSUME PlayConstants PROVE PlaySpec => []AckedIsDone
<1>1. PlayInv => AckedIsDone
  BY DEF PlayInv, AnswersTrue, AckedIsDone
<1>2. QED BY <1>1, PlayInductive, PTL

-----------------------------------------------------------------------------
(* Each session is a compare-and-set ledger.                               *)

\* An event after the start, as a write of the ledger: its id is its key, it was sent at the
\* revision before.
PlayEntry(e) == [key |-> e.id, expected |-> e.sequence - 1, event |-> e]
PlayedEvents(k) == {e \in log : e.key = k /\ e.sequence > 0}

\* A session that was not started is at the revision it will start at.
Ledger(k) == INSTANCE MatterLedger WITH
    Origin <- 0,
    Entries <- {PlayEntry(e) : e \in LogRows},
    revision <- IF session[k].status = "none" THEN 0 ELSE session[k].revision,
    log <- {PlayEntry(e) : e \in PlayedEvents(k)}

\* A batch that changes the tables took the row it hit to the next revision, with its event; the
\* tie of time stamps finds a parent but no place in the log.
LEMMA BatchMoves ==
    ASSUME PlayConstants, PlayInv, NEW w \in Workers, NEW tie \in BOOLEAN, Batch(w, tie),
           ~UNCHANGED <<session, log>>
    PROVE  LET q == Asked(w)
           IN  /\ q \in EventRequests /\ EventOf(q) \in LogRows /\ NewEvent(w)
               /\ log' = log \cup {EventOf(q)} /\ q.key \in SessionKeys
               /\ session[q.key].status = "active" /\ session[q.key].revision = q.expected
               /\ session'[q.key].status # "none" /\ session'[q.key].revision = q.expected + 1
               /\ \A j \in SessionKeys \ {q.key} : session'[j] = session[j]
<1> USE DEF PlayConstants
<1> DEFINE q == Asked(w)
           was == play[w].row
           hit == Row(w).status = "active" /\ Row(w).revision = q.expected
           parent == \/ hit
                     \/ tie /\ Row(w).revision = q.expected + 1
                            /\ Row(w).status = After(q.command)
           moved == [by |-> was.by, status |-> After(q.command), revision |-> q.expected + 1,
                     state |-> IF q.command = "abandon" THEN was.state
                               ELSE Append(was.state, q.command)]
           done == parent /\ NewEvent(w)
<1>1. /\ Seen(play[w], session) /\ In(w, "batch")
      /\ q \in EventRequests /\ q.key \in SessionKeys /\ q.command \in Commands
      /\ q.expected \in Nat /\ q.expected < MaxEvents
      /\ session[q.key] \in Sessions /\ session[q.key].revision \in Nat
      /\ session \in [SessionKeys -> Sessions \cup {NoSession}]
  BY DEF PlayInv, RowsSeen, Seen, Batch, In, Asked, EventRequests, Sessions, Tables
<1>2. done
  BY DEF Batch
<1>3. hit
  <2> SUFFICES ASSUME session[q.key].revision = q.expected + 1 PROVE FALSE
      BY <1>2 DEF Row
  <2>1. Told(session[q.key], EventsOf(q.key))
    BY <1>1 DEF PlayInv, RowsTold
  <2>2. session[q.key].status # "none" /\ q.expected + 1 \in 0 .. session[q.key].revision
    BY <1>1 DEF Sessions
  <2>3. PICK e \in EventsOf(q.key) : e.sequence = q.expected + 1
    BY <2>1, <2>2 DEF Told
  <2> QED BY <1>2, <2>3 DEF NewEvent, EventsOf
<1>4. session' = [session EXCEPT ![q.key] = moved] /\ log' = log \cup {EventOf(q)}
  BY <1>2, <1>3 DEF Batch
<1>5. moved.status # "none" /\ moved.revision = q.expected + 1
  BY DEF After
<1>6. EventOf(q) \in LogRows
  BY <1>1 DEF EventOf, LogRows, EventRequests
<1> HIDE DEF moved
<1> QED BY <1>1, <1>2, <1>3, <1>4, <1>5, <1>6 DEF Row

\* The events of a session are its writes: each is accepted at the revision its client saw, takes
\* the row to the next one, and goes in once under its id, from however many tabs it was sent.
THEOREM SessionsAreLedgers ==
    ASSUME PlayConstants, NEW k \in SessionKeys
    PROVE  PlaySpec => Ledger(k)!Spec
<1> USE DEF PlayConstants
<1>1. PlayInit => Ledger(k)!Init
  BY DEF PlayInit, Ledger!Init, NoSession, PlayedEvents
<1>2. ASSUME PlayInv, [PlayNext]_playVars PROVE [Ledger(k)!Next]_(Ledger(k)!ledgerVars)
  <2>1. ASSUME UNCHANGED <<session, log>> PROVE UNCHANGED Ledger(k)!ledgerVars
    BY <2>1 DEF Ledger!ledgerVars, PlayedEvents
  <2>2. CASE Quiet
    BY <2>1, <2>2 DEF Quiet
  <2>3. ASSUME NEW w \in Workers, Start(w) PROVE UNCHANGED Ledger(k)!ledgerVars
    <3> DEFINE q == Asked(w)
               new == [by |-> q.by, status |-> "active", revision |-> 0, state |-> <<>>]
               first == [key |-> q.key, id |-> "start", sequence |-> 0, command |-> "start"]
    <3>1. q \in StartRequests /\ session \in [SessionKeys -> Sessions \cup {NoSession}]
      BY <1>2, <2>3 DEF PlayInv, RowsSeen, Seen, Start, In, Asked, Tables
    <3>2. q.key \in SessionKeys
      BY <3>1 DEF StartRequests
    <3>3. CASE Row(w).status # "none"
      BY <2>1, <2>3, <3>3 DEF Start
    <3>4. CASE Row(w).status = "none"
      <4>1. session' = [session EXCEPT ![q.key] = new] /\ log' = log \cup {first}
        BY <2>3, <3>4 DEF Start
      <4>2. first.sequence = 0 /\ new.revision = 0 /\ new.status = "active"
        OBVIOUS
      <4> HIDE DEF new, first
      <4>3. PlayedEvents(k)' = PlayedEvents(k)
        BY <4>1, <4>2 DEF PlayedEvents
      <4>4. (IF session[k].status = "none" THEN 0 ELSE session[k].revision)'
              = IF session[k].status = "none" THEN 0 ELSE session[k].revision
        BY <3>1, <3>2, <3>4, <4>1, <4>2 DEF Row
      <4> QED BY <4>3, <4>4 DEF Ledger!ledgerVars
    <3> QED BY <3>3, <3>4
  <2>4. ASSUME NEW w \in Workers, NEW tie \in BOOLEAN, Batch(w, tie)
        PROVE [Ledger(k)!Next]_(Ledger(k)!ledgerVars)
    <3> DEFINE q == Asked(w)
               e == EventOf(q)
               rev == IF session[k].status = "none" THEN 0 ELSE session[k].revision
    <3>1. CASE UNCHANGED <<session, log>>
      BY <2>1, <3>1
    <3>2. CASE ~UNCHANGED <<session, log>>
      <4>1. /\ q \in EventRequests /\ e \in LogRows /\ NewEvent(w)
            /\ log' = log \cup {e} /\ q.key \in SessionKeys
            /\ session[q.key].status = "active" /\ session[q.key].revision = q.expected
            /\ session'[q.key].status # "none" /\ session'[q.key].revision = q.expected + 1
            /\ \A j \in SessionKeys \ {q.key} : session'[j] = session[j]
        BY <1>2, <2>4, <3>2, BatchMoves
      <4>2. e.key = q.key /\ e.id = q.id /\ e.sequence = q.expected + 1 /\ q.expected \in Nat
        BY <4>1 DEF EventOf, EventRequests
      <4> HIDE DEF e
      <4>3. CASE k # q.key
        <5>1. PlayedEvents(k)' = PlayedEvents(k)
          BY <4>1, <4>2, <4>3 DEF PlayedEvents
        <5>2. session'[k] = session[k]
          BY <4>1, <4>3
        <5> QED BY <5>1, <5>2 DEF Ledger!ledgerVars
      <4>4. CASE k = q.key
        <5>1. PlayedEvents(k)' = PlayedEvents(k) \cup {e}
          BY <4>1, <4>2, <4>4 DEF PlayedEvents
        <5>2. rev = q.expected /\ rev' = q.expected + 1
          BY <4>1, <4>4
        <5>3. PlayEntry(e).key = q.id /\ PlayEntry(e).expected = q.expected
          BY <4>2 DEF PlayEntry
        <5>4. \A f \in PlayedEvents(k) : PlayEntry(f).key # q.id
          BY <4>1, <4>4 DEF PlayedEvents, PlayEntry, NewEvent, Logged
        <5>5. {PlayEntry(f) : f \in PlayedEvents(k)}'
                = {PlayEntry(f) : f \in PlayedEvents(k)} \cup {PlayEntry(e)}
          BY <5>1
        <5>6. Ledger(k)!Append(PlayEntry(e))
          BY <5>2, <5>3, <5>4, <5>5 DEF Ledger!Append
        <5> QED BY <4>1, <5>6 DEF Ledger!Next
      <4> QED BY <4>3, <4>4
    <3> QED BY <3>1, <3>2
  <2>5. CASE UNCHANGED playVars
    BY <2>1, <2>5 DEF playVars
  <2> QED
    BY <1>2, <2>2, <2>3, <2>4, <2>5
       DEF PlayNext, SendStart, Started, Send, Check, Blocked, Settle, BatchFails, Drop, Quiet,
           Refuse, Accept
<1> QED BY <1>1, <1>2, PlayInductive, PTL DEF PlaySpec, Ledger!Spec
=============================================================================
