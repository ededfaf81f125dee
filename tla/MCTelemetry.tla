---------------------------- MODULE MCTelemetry ----------------------------
(* Two nodes that read the trace in use at different places, and files of  *)
(* both formats: good ones, with NaN, with text, with unusable rows, with  *)
(* the wrong name, without rows and without known columns.                 *)
EXTENDS Telemetry, TLC

MCOffset == <<0, 1>>
File(columns, rows) == [csv |-> TRUE, columns |-> columns, rows |-> rows]
MCFiles ==
  { File({"alibaba"}, <<"good", "good", "nancpu">>),
    File({"alibaba"}, <<"good", "nanmem", "good">>),
    File({"alibaba", "borg"}, <<"good", "nanmem">>),
    File({"alibaba"}, <<"good", "text">>),
    File({"borg"}, <<"good", "nancpu", "good", "text", "good", "good", "good">>),
    File({"borg"}, <<"nanmem", "text">>),
    File({"borg"}, <<"good">>),
    File({"alibaba"}, <<>>),
    File({}, <<"good">>),
    [csv |-> FALSE, columns |-> {"alibaba"}, rows |-> <<"nanmem">>] }
============================================================================
