----------------------------- MODULE MCChatSession -----------------------------
(*****************************************************************************)
(* ChatSession for TLC: two of the histories an overflow policy may return.  *)
(*****************************************************************************)
EXTENDS ChatSession

\* What came before is summed up in a message in the user's name, which takes from
\* the results behind it their call; or the call alone is kept, whose results are
\* asked, which the template refuses in front of a message.
SomeFronts == {<<"user">>, <<"call">>}
===============================================================================
