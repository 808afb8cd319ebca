-------------------------- MODULE MCGenerationSequence --------------------------
(*******************************************************************************)
(* An instance of SequenceConversation for TLC: a model whose next tokens      *)
(* depend on every token before them and on their order.                       *)
(*******************************************************************************)
EXTENDS SequenceConversation

CONSTANTS a, b, stop

Order == <<a, b, stop>>
Rank(t) == CHOOSE i \in 1 .. 3 : Order[i] = t

\* Two of the three tokens may follow, according to all tokens so far.
Mix(past) ==
    LET mix[i \in 0 .. Len(past)] ==
            IF i = 0 THEN 0 ELSE (mix[i - 1] + i * Rank(past[i])) % 3
    IN mix[Len(past)]
TwoLikely(past) == {Order[1 + Mix(past)], Order[1 + ((Mix(past) + 1) % 3)]}

\* Nothing but the pending token, one token, and with a pending token two chunks.
FewPrompts == {<<>>, <<a>>, <<b, a, b>>}
OnePrompt == {<<>>, <<a>>}
===============================================================================
