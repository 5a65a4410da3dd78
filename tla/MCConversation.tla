-------------------------- MODULE MCConversation ----------------------------
(* Conversation for TLC: two screen prefixes of two tokens, a third given by  *)
(* the client; start messages that are refused, import nothing, a history     *)
(* longer than the target, or one that never fits.                            *)
EXTENDS Conversation

Check == <<901, 902>>
Checked == <<903, 904>>
Custom == <<905>>

Payload(valid, prompt, sampling, custom, history) ==
  [valid |-> valid, prompt |-> prompt, sampling |-> sampling, check |-> custom,
   checked |-> Null, history |-> history]

User(k, n) == Message("user", [j \in 1..n |-> 700 + 10 * k + j])
Bot(k, n) == Message("assistant", [j \in 1..n |-> 800 + 10 * k + j])

\* An assistant before the first user, two users in a row, a role nobody knows.
Seed == <<Bot(0, 1), User(1, 4), Bot(1, 1), User(2, 1), User(3, 1), Message("system", <<1>>), Bot(3, 1)>>

MCPayloads ==
  { Payload(FALSE, <<>>, Null, Null, Null),
    Payload(TRUE, <<1>>, "warm", Null, Null),
    Payload(TRUE, <<1>>, Null, Custom, Seed),
    Payload(TRUE, <<1, 2, 3>>, Null, Null, <<User(1, 20), Bot(1, 1)>>) }

MCSamplings == {Null, "cold"}

\* A long opening and three short exchanges after it.
LongOpening ==
  { Payload(TRUE, <<1>>, Null, Null,
      <<User(1, 13), Bot(1, 1), User(2, 1), Bot(2, 1), User(3, 1), Bot(3, 1), User(4, 1), Bot(4, 1)>>) }

MCUtterances == {<< <<>>, 1 >>, << <<>>, 5 >>, <<Check, 0>>, <<Checked, 1>>}

\* The hypothesis of PrefixesStayOut holds of what this run enumerates.
ASSUME PrefixesAreRecognisable
=============================================================================
