----------------------------- MODULE MCCommandLine -----------------------------
(* CommandLine with the lines of a task file: two tasks of one AS number on *)
(* port strings that look alike, a task of another, and a line too short.   *)
EXTENDS CommandLine
CONSTANTS a1, a2
Lines == {<<a1, <<"80", "-", "443">>, "yes">>, <<a1, <<"80", ",", "443">>, "1">>,
          <<a2, <<"443">>, "no", "more">>, <<a2>>}
================================================================================
