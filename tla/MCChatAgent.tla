---------------------------- MODULE MCChatAgent ----------------------------
(***************************************************************************)
(* The replies of the LLM for TLC: prose only, a write that installs, one  *)
(* that is rejected, and a good one next to a stray call.                  *)
(***************************************************************************)
EXTENDS ChatAgent

AnyReply == {<< >>, <<"applied">>, <<"rejected">>, <<"applied", "unknown">>}
=============================================================================
