---------------------------- MODULE MCAutomation ----------------------------
(* Values for the constants of Automation that a .cfg cannot write down. *)
EXTENDS Automation

(* Automations without a schedule: two actions. *)
TwoActions == { [active |-> FALSE, next |-> Never, interval |-> 0,
                 retryLimit |-> 1, actions |-> 2] }

(* One action. *)
OneAction == { [active |-> FALSE, next |-> Never, interval |-> 0,
                retryLimit |-> 1, actions |-> 1] }

(* An interval trigger and a first date given with the request. *)
Scheduled == { [active |-> TRUE, next |-> 0, interval |-> 1,
                retryLimit |-> 1, actions |-> 1] }
(* .. nothing to do: its runs fail. *)
ScheduledEmpty == { [active |-> TRUE, next |-> n, interval |-> 1,
                     retryLimit |-> 1, actions |-> 0] : n \in {Never, 0} }

(* One automation with a trigger nextRun does not accept. *)
WithBadTrigger == { [active |-> TRUE, next |-> 0, interval |-> 0,
                     retryLimit |-> 1, actions |-> 1] }
                  \cup OneAction

Silent == [active |-> "keep", next |-> Keep, interval |-> Keep,
           retryLimit |-> Keep, actions |-> Keep]
NoEdits == {}
SomeEdits == { [Silent EXCEPT !.active = "off"], [Silent EXCEPT !.interval = 2],
               [Silent EXCEPT !.interval = 0] }
=============================================================================
