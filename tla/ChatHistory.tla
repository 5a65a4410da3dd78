----------------------------- MODULE ChatHistory ----------------------------
(***************************************************************************)
(* The pure part of a session's two history stores: the canonical chat     *)
(* messages and their turns (src/helpers/chat_history.py), trimming        *)
(* (src/handlers/session/history/ops.py), imports (handlers/session/       *)
(* parsing.py) and the exact fits before an engine call                    *)
(* (execution/chat/prompt_budget.py, execution/tool/prompt_budget.py).     *)
(***************************************************************************)
EXTENDS Tokens

CONSTANTS
  Null,        \* None
  ChatMaxLen,  \* the chat model's context, in tokens
  UserMax      \* USER_UTT_MAX_TOKENS

ASSUME FitConstants == ChatMaxLen \in Nat \ {0} /\ UserMax \in Nat \ {0}

Message(role, text) == [role |-> role, text |-> text]

Roles == {"user", "assistant"}

-----------------------------------------------------------------------------
(* Messages and turns. *)

\* Mutant of AppendMessage: a text that is empty once stripped is kept.
AppendMessageEvenEmpty(messages, m) ==
  IF m.role \notin Roles THEN messages ELSE Append(messages, m)

\* Consecutive user messages become one; other roles and empty texts are dropped.
AppendMessage(messages, m) ==
  IF m.role \notin Roles \/ m.text = <<>> THEN messages
  ELSE IF m.role = "user" /\ messages # <<>> /\ Last(messages).role = "user"
       THEN [messages EXCEPT ![Len(messages)].text = @ \o m.text]
       ELSE Append(messages, m)

ParseForChat(items) == FoldLeft(AppendMessage, <<>>, items)

ParseForTool(items) ==
  LET kept == Selected(items, LAMBDA m : m.role = "user" /\ m.text # <<>>)
  IN [n \in DOMAIN kept |-> kept[n].text]

CopyMessages(messages) == Selected(messages, LAMBDA m : m.text # <<>>)

(* A turn is a user message and what follows it; messages of the assistant  *)
(* before the first user form one turn of their own.                        *)
AddToTurns(turns, m) ==
  IF m.role = "user" \/ turns = <<>> THEN Append(turns, <<m>>)
  ELSE [turns EXCEPT ![Len(turns)] = Append(@, m)]

GroupTurns(messages) == FoldLeft(AddToTurns, <<>>, CopyMessages(messages))

FlattenTurns(turns) == CopyMessages(FlattenSeq(turns))

SumOver(seq, Weight(_)) == FoldLeft(LAMBDA sum, e : sum + Weight(e), 0, seq)

\* render_history writes the role in front of each text: a token of its own.
TranscriptTokens(messages) == SumOver(messages, LAMBDA m : 1 + ChatCount(m.text))

-----------------------------------------------------------------------------
(* Trimming. *)

(* The number of items to drop is first estimated from their average size,  *)
(* but one item stays; only then are items dropped one by one. sizes[n] is  *)
(* the size of what is left without the first n.                            *)
TrimOldest(items, target, sizes) ==
  LET From(n) == SubSeq(items, n + 1, Len(items))
      total == sizes[0]
      estimate == Max({1, (total - target) \div Max({1, total \div Len(items)})})
      first == Min({estimate, Len(items) - 1})
      enough == {n \in first..Len(items) - 1 : n = Len(items) - 1 \/ sizes[n] <= target}
  IN IF total <= target THEN items ELSE From(Min(enough))

TrimChat(messages, trigger, target) ==
  LET turns == GroupTurns(messages)
      sizes == [n \in 0..Len(turns) |-> TranscriptTokens(FlattenTurns(SubSeq(turns, n + 1, Len(turns))))]
  IN IF turns = <<>> THEN <<>>
     ELSE IF sizes[0] <= trigger THEN messages
     ELSE FlattenTurns(TrimOldest(turns, Min({target, trigger}), sizes))

\* An entry of the tool store is a user's text under the id of its turn.
Entry(id, text) == [id |-> id, text |-> text]

UserTexts(entries) == [n \in DOMAIN entries |-> entries[n].text]

ToolStoreTokens(entries) == ToolCount(FlattenSeq(UserTexts(entries)))

TrimTool(entries, budget) ==
  LET sizes == [n \in 0..Len(entries) |-> ToolStoreTokens(SubSeq(entries, n + 1, Len(entries)))]
      kept == TrimOldest(entries, budget, sizes)
      only == kept[1]
      clipped == CutToolText(only.text, budget, "end")
  IN IF ToolStoreTokens(entries) <= budget THEN entries
     ELSE IF ToolStoreTokens(kept) <= budget \/ Len(kept) # 1 THEN kept
     ELSE IF clipped # <<>> THEN <<Entry(only.id, clipped)>> ELSE <<>>

-----------------------------------------------------------------------------
(* Prompts and fits. *)

\* Mutant of PromptMessages: the template's own messages are not merged.
PromptMessagesUnmerged(system, history, user) ==
  LET start == IF system = <<>> THEN <<>> ELSE <<Message("system", system)>>
      end == IF user = <<>> THEN <<>> ELSE <<Message("user", user)>>
  IN start \o history \o end

\* The messages of the chat template: consecutive messages of either role become one.
AddToPrompt(messages, m) ==
  IF m.text = <<>> THEN messages
  ELSE IF messages # <<>> /\ Last(messages).role = m.role
       THEN [messages EXCEPT ![Len(messages)].text = @ \o m.text]
       ELSE Append(messages, m)

PromptMessages(system, history, user) ==
  LET start == IF system = <<>> THEN <<>> ELSE <<Message("system", system)>>
  IN AddToPrompt(FoldLeft(AddToPrompt, start, history), Message("user", user))

\* ChatML: a marker before and after each message, one for the answer.
PromptTokens(system, history, user) ==
  1 + SumOver(PromptMessages(system, history, user), LAMBDA m : 2 + ChatCount(m.text))

\* The most of a user's text that may be kept.
UserCap(user, maxUser) ==
  IF maxUser = Null THEN Len(user) ELSE Min({Len(user), Max({1, maxUser})})

(* The user's text is cut to what fits behind the turns that are left. Null *)
(* stands for a ValueError: an empty text is not searched for.              *)
FitUser(system, history, user, cap) ==
  LET fitting == {k \in 1..cap : PromptTokens(system, history, Cut(user, k, "start")) <= ChatMaxLen}
      length == LargestFit(cap, fitting)
  IN IF user # <<>> /\ length = 0 THEN Null ELSE Cut(user, length, "start")

(* Whole turns are dropped, oldest first, while the largest text that may be *)
(* kept does not fit.                                                        *)
FitChat(system, history, user, maxUser) ==
  LET turns == GroupTurns(history)
      Kept(n) == FlattenTurns(SubSeq(turns, n + 1, Len(turns)))
      most == Cut(user, UserCap(user, maxUser), "start")
      dropped == Min({n \in 0..Len(turns) :
                        n = Len(turns) \/ PromptTokens(system, Kept(n), most) <= ChatMaxLen})
      text == FitUser(system, Kept(dropped), user, UserCap(user, maxUser))
  IN IF text = Null \/ PromptTokens(system, Kept(dropped), text) > ChatMaxLen THEN Null
     ELSE [history |-> Kept(dropped), user |-> text]

ToolInputTokens(lines, user) == ToolCount(FlattenSeq(lines) \o user)

\* The tool model keeps the end of a text that is too long.
FitToolUser(lines, user, budget) ==
  LET fitting == {k \in 1..Len(user) : ToolInputTokens(lines, Cut(user, k, "end")) <= budget}
      length == LargestFit(Len(user), fitting)
  IN IF user # <<>> /\ length = 0 THEN Null ELSE Cut(user, length, "end")

FitTool(texts, user, budget) ==
  LET lines == Selected(texts, LAMBDA t : t # <<>>)
      Kept(n) == SubSeq(lines, n + 1, Len(lines))
      dropped == Min({n \in 0..Len(lines) :
                        n = Len(lines) \/ ToolInputTokens(Kept(n), user) <= budget})
      text == IF ToolInputTokens(Kept(dropped), user) <= budget THEN user
              ELSE FitToolUser(Kept(dropped), user, budget)
  IN IF budget <= 0 \/ text = Null \/ ToolInputTokens(Kept(dropped), text) > budget THEN Null
     ELSE [history |-> Kept(dropped), user |-> text]

=============================================================================
