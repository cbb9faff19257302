------------------------------- MODULE UseApi -------------------------------
(***************************************************************************)
(* The hook every page of the dashboard reads the management API with      *)
(* (hooks/useApi.ts), as operators on what one mounted component keeps:    *)
(*   data     the last answer, Null before the first one                   *)
(*   loading  the spinner                                                  *)
(*   error    the last call failed                                         *)
(*   calls    its calls in flight, in the order they were made             *)
(*   newest   not in the code: whether data is the answer to the last call *)
(*            made ("shown"), still to come ("due"), did not come          *)
(*            ("failed"), or was replaced by an older answer ("overtaken") *)
(*                                                                         *)
(* The hook numbers nothing and cancels nothing: calls are answered by the *)
(* server and settle on the page in any order.                             *)
(***************************************************************************)
EXTENDS Naturals, Sequences

CONSTANTS
  Null,      \* no value
  MaxCalls   \* bound on one component's calls in flight

ASSUME CallsAssumption == MaxCalls \in Nat \ {0}

Newest == {"due", "shown", "failed", "overtaken"}

Sent == [state |-> "sent"]
Answered(value) == [state |-> "answered", value |-> value]
Refused == [state |-> "refused"]

\* s without its i-th element.
Except(s, i) == [k \in 1..Len(s) - 1 |-> IF k < i THEN s[k] ELSE s[k + 1]]

Room(h) == Len(h.calls) < MaxCalls

\* load, up to its await.
Load(h) ==
  [h EXCEPT !.loading = TRUE, !.error = FALSE, !.calls = Append(@, Sent), !.newest = "due"]

Unmounted == [data |-> Null, loading |-> TRUE, error |-> FALSE, calls |-> <<>>, newest |-> "due"]

\* The first render and its effect. (StrictMode runs it twice in a development build only.)
Mount == Load(Unmounted)

\* The server handles call i, or request throws: the call fails, or its status is not ok.
Answer(h, i, value) == [h EXCEPT !.calls[i] = Answered(value)]
Refuse(h, i) == [h EXCEPT !.calls[i] = Refused]

\* Which call data comes from, once call i has settled.
Standing(h, i, ok) ==
  IF h.newest = "due"
  THEN IF i < Len(h.calls) THEN "due" ELSE IF ok THEN "shown" ELSE "failed"
  ELSE IF ok THEN "overtaken" ELSE h.newest

\* The rest of load, when call i settles on a mounted component: data or error, then the spinner.
Settle(h, i) ==
  LET ok == h.calls[i].state = "answered" IN
  [h EXCEPT !.data = IF ok THEN h.calls[i].value ELSE @,
            !.error = @ \/ ~ok,
            !.loading = FALSE,
            !.newest = Standing(h, i, ok),
            !.calls = Except(@, i)]

Settled(h, i) == i \in DOMAIN h.calls /\ h.calls[i].state # "sent"
Pending(h, i) == i \in DOMAIN h.calls /\ h.calls[i].state = "sent"

=============================================================================
