------------------------------- MODULE MCFetch -------------------------------
(* The two sources of the in-process resolver for TLC: a behaviour is one of *)
(* the sync stream or one of the file; the variables of the other rest.      *)
EXTENDS GrpcFetch, FileFetch

VARIABLE subject        \* "stream" or "file"

MCContents == {[flags |-> f, parses |-> p] : f \in FlagSets(Keys, Definitions), p \in {TRUE}}
                \union {[flags |-> NoFlags, parses |-> FALSE]}

MCInit ==
  /\ Init /\ FileInit
  /\ subject \in {"stream", "file"}
  /\ subject = "stream" => file.contents.flags = NoFlags /\ file.readable /\ file.contents.parses
  /\ subject = "file" => config.flags = NoFlags

MCNext ==
  \/ subject = "stream" /\ Next /\ UNCHANGED <<fileVars, subject>>
  \/ subject = "file" /\ FileNext /\ UNCHANGED <<vars, subject>>

(* Fairness is the stream's; with the file the stream never moves.           *)
MCSpec == MCInit /\ [][MCNext]_<<vars, fileVars, subject>> /\ (subject = "stream" => Fairness)
=============================================================================
