------------------------------- MODULE MCService -------------------------------
(* Configurations of Service for TLC.                                       *)
EXTENDS Service

Pipeline(signal, acceptors, dispatcher) ==
  [signal |-> signal, acceptors |-> acceptors, processors |-> <<"tenant">>,
   dispatchers |-> <<dispatcher>>]
Configuration(pipelines) ==
  [pipelines |-> pipelines, connectors |-> {"crosssignal"}, broken |-> {},
   transports |-> [otqp |-> <<"grpc", "http">>, promin |-> <<"http">>, lokiin |-> <<"http">>]]

Metrics == Pipeline("metrics", <<"promin", "crosssignal">>, "prometheus")
Shadow == Pipeline("metrics", <<"crosssignal">>, "prometheus")
Logs == Pipeline("logs", <<"crosssignal">>, "loki")
Cross == Pipeline("logs", <<"otqp">>, "crosssignal")

(* What the tests of service_test.go build; one acceptor in front of one   *)
(* storage; a connector with two rival targets, and with a target missing. *)
Good ==
  { Configuration([metrics |-> Metrics, logs |-> Logs, cross |-> Cross]),
    Configuration([metrics |-> Pipeline("metrics", <<"otqp">>, "prometheus")]),
    Configuration([metrics |-> Shadow, rival |-> Shadow, cross |-> Cross]) }

(* A connector-terminated target, its own or another's; a reused acceptor; *)
(* components that do not exist; pipelines that LoadConfig refuses.        *)
Nested == Pipeline("logs", <<"otqp", "crosssignal">>, "crosssignal")
Bad ==
  { Configuration([metrics |-> Metrics, cross |-> Nested]),
    Configuration([metrics |-> Metrics, logs |-> Logs, cross |-> Cross,
                   second |-> Pipeline("logs", <<"otqp">>, "loki")]),
    Configuration([metrics |-> Pipeline("metrics", <<"otqp", "otqp">>, "prometheus")]),
    Configuration([metrics |-> Pipeline("traces", <<"otqp">>, "prometheus")]),
    Configuration([metrics |-> Pipeline("metrics", <<>>, "prometheus")]),
    Configuration([metrics |-> [Metrics EXCEPT !.dispatchers = <<>>]]),
    Configuration([metrics |-> [Metrics EXCEPT !.dispatchers = <<"loki", "prometheus">>]]),
    Configuration(<<>>) }
  \cup {[Configuration([metrics |-> Metrics, logs |-> Logs, cross |-> Cross])
           EXCEPT !.broken = {id}] :
          id \in {"tenant", "loki", "crosssignal", "promin"}}

Configurations == Good \cup Bad
================================================================================
