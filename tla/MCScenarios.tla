---------------------------- MODULE MCScenarios -----------------------------
(***************************************************************************)
(* Small scenarios for ScenarioRuntime, with each kind of trigger and      *)
(* effect.  They have the paths that juris-scenario-validator asks for: a  *)
(* missed event marks its deadline, a completion event makes its task      *)
(* ready, a task is reviewed somewhere, an action leaves the first stage,  *)
(* and a step that closes the matter closes its tasks and the deadlines    *)
(* that are open from the start, and has an outcome.                       *)
(***************************************************************************)
EXTENDS Integers, Sequences

CONSTANT None

On(kind, of) == [kind |-> kind, of |-> of]
Do(kind, of) == [kind |-> kind, of |-> of]
Event(id, on, flags, least, do, repeatable) ==
  [id |-> id, on |-> on, flags |-> flags, least |-> least, do |-> do, repeatable |-> repeatable]

\* A claim for a debt: the metric grows until the other side asks, a late answer loses.
DebtClaim == [
  rate |-> 1,
  events |-> <<
    Event("asked", On("reaches", 2), {}, 0, <<Do("flag", "asked"), Do("metric", -1)>>, FALSE),
    Event("heard", On("at", 3), {"asked"}, 0, <<Do("metric", 2)>>, FALSE),
    Event("urged", On("reaches", 5), {}, 0, <<Do("metric", -2), Do("trigger", "noted")>>, TRUE),
    Event("noted", On("none", None), {"asked"}, 0, <<Do("flag", "noted")>>, FALSE),
    Event("drawn", On("task", "draft"), {}, 0, <<Do("ready", "draft")>>, FALSE),
    Event("read", On("event", "drawn"), {"noted"}, 0, <<Do("review", "draft")>>, FALSE),
    Event("lost", On("missed", "reply"), {}, 0,
          <<Do("miss", "reply"), Do("review", "draft"),
            Do("stage", "closed"), Do("outcome", "lost")>>, FALSE),
    Event("won", On("action", "answer"), {"noted"}, 0,
          <<Do("done", "reply"), Do("review", "draft"),
            Do("stage", "closed"), Do("outcome", "won")>>, FALSE)>>,
  deadlines |-> <<[id |-> "reply", due |-> 6, relative |-> FALSE, atDue |-> FALSE,
                   opens |-> None, missed |-> "lost", by |-> {"answer"}]>>,
  tasks |-> <<[id |-> "draft", lasts |-> 2, timed |-> FALSE, done |-> "drawn"]>>,
  actions |-> <<
    [id |-> "brief", stage |-> "open", cost |-> 1, once |-> TRUE, flags |-> {},
     do |-> <<Do("start", "draft")>>, to |-> <<>>, within |-> <<>>],
    [id |-> "answer", stage |-> "open", cost |-> 1, once |-> TRUE, flags |-> {},
     do |-> <<Do("flag", "answered")>>, to |-> <<>>, within |-> <<"reply">>]>>]

\* An appeal: a ruling opens the time to appeal, a repeatable reminder lowers
\* what grew, a warning of the rising metric is retried at each boundary.
RulingAppeal == [
  rate |-> 2,
  events |-> <<
    Event("begun", On("start", None), {}, 0, <<Do("metric", 1)>>, FALSE),
    Event("ruling", On("at", 2), {}, 0, <<Do("flag", "ruled")>>, FALSE),
    Event("served", On("event", "ruling"), {}, 0, <<Do("start", "file")>>, FALSE),
    Event("filed", On("task", "file"), {"appealed"}, 0,
          <<Do("ready", "file"), Do("metric", 3)>>, FALSE),
    Event("remind", On("reaches", 6), {"ruled"}, 0, <<Do("metric", -4)>>, TRUE),
    Event("expired", On("missed", "appeal"), {}, 0,
          <<Do("miss", "appeal"), Do("flag", "expired")>>, FALSE),
    Event("final", On("event", "expired"), {}, 0, <<Do("trigger", "end")>>, FALSE),
    Event("end", On("none", None), {"expired"}, 0,
          <<Do("review", "file"), Do("stage", "closed"), Do("outcome", "upheld")>>, FALSE)>>,
  deadlines |-> <<[id |-> "appeal", due |-> 3, relative |-> TRUE, atDue |-> TRUE,
                   opens |-> "ruling", missed |-> "expired", by |-> {"appeal"}]>>,
  tasks |-> <<[id |-> "file", lasts |-> 1, timed |-> TRUE, done |-> "filed"]>>,
  actions |-> <<
    [id |-> "appeal", stage |-> "open", cost |-> 1, once |-> TRUE, flags |-> {"ruled"},
     do |-> <<Do("flag", "appealed"), Do("start", "file")>>, to |-> <<"appeal">>,
     within |-> <<>>],
    [id |-> "work", stage |-> "open", cost |-> 2, once |-> FALSE, flags |-> {},
     do |-> <<Do("metric", 1)>>, to |-> <<>>, within |-> <<>>],
    [id |-> "accept", stage |-> "open", cost |-> 1, once |-> TRUE, flags |-> {"ruled"},
     do |-> <<Do("done", "appeal"), Do("review", "file"),
              Do("stage", "closed"), Do("outcome", "upheld")>>, to |-> <<>>,
     within |-> <<>>]>>]

\* Not steady: the timed event waits for the metric.
Unsteady == [DebtClaim EXCEPT !.events[2].least = 2]

PlayedScenarios == {DebtClaim, RulingAppeal, Unsteady}
=============================================================================
