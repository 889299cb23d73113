------------------------------- MODULE MCService -------------------------------
(***************************************************************************)
(* Service on a small instance: the three examples, and a service behind   *)
(* control.Wrap with either backend and no logger of its own.              *)
(***************************************************************************)
EXTENDS Service, TLC

CONSTANTS abc, zzz

MCProgram ==
    { [main |-> "go-log",     backend |-> "slog", logger |-> "own"],
      [main |-> "go-log-zap", backend |-> "zap",  logger |-> "own"],
      [main |-> "go-otel",    backend |-> "slog", logger |-> "own"],
      [main |-> "wrapped",    backend |-> "slog", logger |-> "global"],
      [main |-> "wrapped",    backend |-> "zap",  logger |-> "global"] }

MCHeader ==
    { [projectID |-> abc, userID |-> zzz], [projectID |-> abc, userID |-> Nil],
      [projectID |-> Nil, userID |-> abc] }

\* One project, everybody, and a field that the service does not register.
MCConfig ==
    { [ttl |-> 1, match |-> "projectID" :> abc, matchAll |-> FALSE],
      [ttl |-> 1, match |-> <<>>, matchAll |-> TRUE],
      [ttl |-> 1, match |-> "tenant" :> abc, matchAll |-> FALSE] }

===============================================================================
