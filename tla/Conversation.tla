---------------------------- MODULE Conversation ----------------------------
(***************************************************************************)
(* What a session remembers: its settings, the chat store, the tool store  *)
(* and the screen follow-up, from the start message (src/messages/start.py)*)
(* through the plans of its turns (messages/message.py) to what each turn  *)
(* writes back (handlers/session/manager.py, handlers/session/history/     *)
(* controller.py).  Session has the tasks and awaits of the same turns;    *)
(* here a turn is the few points at which it reads or writes the session,  *)
(* and turns that a later message aborted go on in any order.              *)
(***************************************************************************)
EXTENDS ChatHistory

CONSTANTS
  Deployments,      \* modes among "both", "chat", "tool"
  ChatTrigger,      \* CHAT_HISTORY_MAX_TOKENS
  ChatTarget,       \* TRIMMED_HISTORY_LENGTH
  ToolStoreBudget,  \* the tool store, in tokens; 0 when it is not configured
  ToolInputBudget,  \* the input of one classification
  DefaultCheck, DefaultChecked,  \* the screen prefixes, as texts
  StartPayloads,    \* start messages, see Refused and Imports
  Utterances,       \* what a user may say: a prefix, or <<>>, and some number of words
  AnswerLengths,    \* 0 stands for a visible answer that is only white space
  Samplings,        \* sampling overrides of a message, Null among them
  MaxTurns          \* bound on the messages of the session

ASSUME ConversationConstants ==
  /\ Deployments \subseteq {"both", "chat", "tool"}
  /\ ChatTrigger \in Nat \ {0} /\ ChatTarget \in Nat \ {0} /\ ChatTarget < ChatTrigger
  /\ ToolStoreBudget \in Nat /\ ToolInputBudget \in Nat /\ MaxTurns \in Nat
  /\ DefaultCheck \in Texts /\ DefaultChecked \in Texts
  /\ \A p \in StartPayloads :
       /\ p.prompt \in Texts
       /\ p.check = Null \/ p.check \in Texts
       /\ p.checked = Null \/ p.checked \in Texts
       /\ p.history = Null \/ p.history \in Seq([role : STRING, text : Texts])
  /\ Null \notin Seq([role : Roles, text : Texts \ {<<>>}])
  /\ Utterances \subseteq Texts \X Nat /\ AnswerLengths \subseteq Nat

VARIABLES
  deploy,    \* HistoryRuntimeConfig: which models this server has
  phase,     \* of the connection: "fresh", "started", "closed"
  meta,      \* SessionState.meta
  chat,      \* chat_history_messages, Null when there is no such store
  tool,      \* tool_history_turns, Null when there is no such store
  followup,  \* screen_followup_pending
  turns,     \* the turns planned so far, each a TurnPlan and what became of it
  said       \* ghost: every message ever imported or committed, in that order

vars == <<deploy, phase, meta, chat, tool, followup, turns, said>>
settings == <<deploy, phase, meta>>

DeployChat == deploy # "tool"
DeployTool == deploy # "chat"

DefaultMeta == [prompt |-> <<>>, sampling |-> Null, check |-> Null, checked |-> Null]

Init ==
  /\ deploy \in Deployments
  /\ phase = "fresh" /\ meta = DefaultMeta
  /\ chat = Null /\ tool = Null
  /\ followup = FALSE /\ turns = <<>> /\ said = <<>>

\* _sync_mode_storage, before every access to a store.
ChatStore == IF ~DeployChat THEN Null ELSE IF chat = Null THEN <<>> ELSE chat
ToolStore == IF ~DeployTool THEN Null ELSE IF tool = Null THEN <<>> ELSE tool

ChatMessages == IF DeployChat THEN ChatStore ELSE <<>>
ToolTexts == IF DeployTool THEN UserTexts(ToolStore) ELSE <<>>

-----------------------------------------------------------------------------
(* Screen prefixes *)

CheckPrefix == IF meta.check = Null THEN DefaultCheck ELSE meta.check
CheckedPrefix == IF meta.checked = Null THEN DefaultChecked ELSE meta.checked

\* Mutant of StripScreenPrefix: only the first of the two prefixes is looked for.
StripCheckPrefix(text) ==
  IF CheckPrefix # <<>> /\ IsPrefix(CheckPrefix, text)
  THEN SubSeq(text, Len(CheckPrefix) + 1, Len(text)) ELSE text

\* strip_screen_prefix, once, with the prefixes of the session.
StripScreenPrefix(text) ==
  LET Starts(prefix) == prefix # <<>> /\ IsPrefix(prefix, text)
      Without(prefix) == SubSeq(text, Len(prefix) + 1, Len(text))
  IN IF Starts(CheckPrefix) THEN Without(CheckPrefix)
     ELSE IF Starts(CheckedPrefix) THEN Without(CheckedPrefix)
     ELSE text

-----------------------------------------------------------------------------
(* The start message *)

Refused(p) == ~p.valid \/ (~DeployChat /\ p.sampling # Null)

\* _trim_tool_store_eager
TrimmedTool(entries) == IF ToolStoreBudget = 0 THEN entries ELSE TrimTool(entries, ToolStoreBudget)

\* _trim_chat_store_eager: an import is trimmed to the target at once.
TrimmedChat(messages, imported) ==
  TrimChat(messages, IF imported THEN ChatTarget ELSE ChatTrigger, ChatTarget)

\* The chat store after resolve_history.
ImportedChat(p) ==
  IF p.history = Null \/ ~DeployChat THEN ChatMessages
  ELSE TrimmedChat(ParseForChat(p.history), TRUE)

ImportedTool(p) ==
  LET texts == ParseForTool(p.history)
  IN IF p.history = Null THEN ToolStore
     ELSE TrimmedTool([n \in DOMAIN texts |-> Entry(-n, texts[n])])

\* initialize_session, before anything is validated.
StartRefused(p) ==
  /\ phase = "fresh" /\ Refused(p)
  /\ phase' = "closed" /\ meta' = DefaultMeta /\ followup' = FALSE
  /\ chat' = ChatStore /\ tool' = ToolStore
  /\ UNCHANGED <<deploy, turns, said>>

\* update_session_config with the fields of a valid start message.
Configured(p) ==
  [prompt |-> IF DeployChat THEN p.prompt ELSE <<>>, sampling |-> p.sampling,
   check |-> p.check, checked |-> p.checked]

\* fit_start_chat_history: the seed that is kept, or Null for its ValueError.
FittedSeed(prompt, seed) ==
  LET fit == FitChat(prompt, seed, <<>>, Null)
  IN IF ~DeployChat \/ seed = <<>> THEN seed
     ELSE IF fit = Null \/ fit.history = <<>> THEN Null
     ELSE fit.history

(* bootstrap_start_turn.  A seed of which not even the last turn fits the   *)
(* context closes the connection, with everything already stored.           *)
StartAccepted(p) ==
  LET seed == ImportedChat(p)
      fitted == FittedSeed(p.prompt, seed)
  IN /\ phase = "fresh" /\ ~Refused(p)
     /\ phase' = IF fitted = Null THEN "closed" ELSE "started"
     /\ meta' = Configured(p)
     /\ followup' = FALSE
     /\ chat' = IF ~DeployChat THEN Null ELSE IF fitted = Null THEN seed ELSE fitted
     /\ tool' = IF DeployTool THEN ImportedTool(p) ELSE Null
     /\ said' = IF DeployChat /\ p.history # Null THEN ParseForChat(p.history) ELSE said
     /\ UNCHANGED <<deploy, turns>>

\* A cancel marks the connection as started, whatever came before it.
CancelFirst ==
  /\ phase = "fresh" /\ phase' = "started"
  /\ UNCHANGED <<deploy, meta, chat, tool, followup, turns, said>>

-----------------------------------------------------------------------------
(* Turns *)

Words(turn, n) == [k \in 1..n |-> 10 * turn + k]

\* normalize_user_utterances, as each model will get the text.
UserUtterances(text) ==
  [chat |-> IF DeployChat THEN StripScreenPrefix(text) ELSE text,
   tool |-> IF DeployTool THEN StripScreenPrefix(text) ELSE <<>>]

(* _build_message_turn_plan: the history is copied and the follow-up read   *)
(* here, before the turn's task runs. "asked" is what the message asked for.*)
PlannedTurn(text, sampling) ==
  [at |-> "planned", cancelled |-> FALSE,
   user |-> UserUtterances(text).chat, toolUser |-> UserUtterances(text).tool,
   history |-> ChatMessages, apply |-> followup,
   sampling |-> IF DeployChat THEN sampling ELSE Null, asked |-> sampling,
   prompt |-> <<>>]

\* A message aborts the turn before it.  An override is kept in the session's meta.
PlanMessage(text, sampling) ==
  /\ phase = "started" /\ text # <<>> /\ Len(turns) < MaxTurns
  /\ turns' = Append([i \in DOMAIN turns |-> [turns[i] EXCEPT !.cancelled = TRUE]],
                     PlannedTurn(text, sampling))
  /\ meta' = IF DeployChat /\ sampling # Null THEN [meta EXCEPT !.sampling = sampling] ELSE meta
  /\ chat' = ChatStore /\ tool' = ToolStore
  /\ UNCHANGED <<deploy, phase, followup, said>>

Goto(i, place) == turns' = [turns EXCEPT ![i].at = place]

Leave(i) == turns' = [turns EXCEPT ![i] = [@ EXCEPT !.at = "over", !.user = <<>>,
                        !.toolUser = <<>>, !.history = <<>>, !.prompt = <<>>]]

\* The text a turn ends up asking the chat model, and its prompt.
Ask(i, user) ==
  LET fit == FitChat(meta.prompt, turns[i].history, user, UserMax)
  IN IF fit = Null THEN Leave(i)  \* text_too_long
     ELSE turns' = [turns EXCEPT ![i].at = "streaming", ![i].user = fit.user,
                                 ![i].history = fit.history,
                                 ![i].prompt = PromptMessages(meta.prompt, fit.history, fit.user)]

\* Mutant of Starts: a task that was cancelled before it ran still runs.
StartsCancelled(i) == turns[i].at = "planned"

\* A cancelled task that has not run yet never runs.
Starts(i) == turns[i].at = "planned" /\ ~turns[i].cancelled

\* Mutant of RememberToolTurn: the store grows without being trimmed.
RememberToolTurnUntrimmed(i, text) ==
  tool' = IF text = <<>> THEN ToolStore ELSE Append(ToolStore, Entry(i, text))

\* append_tool_turn: under the turn's id, once.
RememberToolTurn(i, text) ==
  LET known == {n \in DOMAIN ToolStore : ToolStore[n].id = i}
  IN tool' = IF text = <<>> THEN ToolStore
             ELSE IF known # {} THEN TrimmedTool([ToolStore EXCEPT ![Min(known)].text = text])
             ELSE TrimmedTool(Append(ToolStore, Entry(i, text)))

\* prepare_tool_turn: classified is the text as the tool model and the tool store get it.
BeginWithTool(i) ==
  LET text == StripScreenPrefix(IF turns[i].toolUser = <<>> THEN turns[i].user
                                ELSE turns[i].toolUser)
      fit == FitTool(ToolTexts, text, Max({1, ToolInputBudget}))
  IN /\ DeployTool /\ Starts(i)
     /\ IF fit = Null THEN Leave(i) /\ tool' = ToolStore
        ELSE Goto(i, "classifying") /\ RememberToolTurn(i, fit.user)
     /\ UNCHANGED <<settings, chat, followup, said>>

BeginChatOnly(i) ==
  /\ ~DeployTool /\ Starts(i)
  /\ Ask(i, turns[i].user)
  /\ UNCHANGED <<settings, chat, tool, followup, said>>

\* The tool model has answered; without a chat model the turn is over.
Decide(i, isTool) ==
  /\ turns[i].at = "classifying" /\ ~turns[i].cancelled
  /\ IF ~DeployChat THEN Leave(i) /\ UNCHANGED followup
     ELSE IF isTool THEN Ask(i, CheckPrefix \o turns[i].user) /\ followup' = TRUE
     ELSE IF turns[i].apply THEN Ask(i, CheckedPrefix \o turns[i].user) /\ followup' = FALSE
     ELSE Ask(i, turns[i].user) /\ UNCHANGED followup
  /\ UNCHANGED <<settings, chat, tool, said>>

\* append_chat_response: a user text that is only a prefix takes its answer with it.
Exchange(user, answer) ==
  IF user = <<>> THEN <<>> ELSE <<Message("user", user), Message("assistant", answer)>>

AppendAll(messages, more) == FoldLeft(AppendMessage, messages, more)

\* Mutant of CommitTurn: the answer is added to the history the turn was planned with.
CommitTurnOnSnapshot(i, n) ==
  LET exchange == Exchange(StripScreenPrefix(StripScreenPrefix(turns[i].user)), Words(i + 50, n))
  IN /\ turns[i].at = "streaming"
     /\ chat' = TrimmedChat(AppendAll(turns[i].history, exchange), FALSE)
     /\ said' = AppendAll(said, exchange)
     /\ Leave(i)
     /\ UNCHANGED <<settings, tool, followup>>

(* The stream has ended or was cancelled after some text became visible:    *)
(* _commit_history_once.  The prefix is taken off twice on the way.         *)
CommitTurn(i, n) ==
  LET exchange == Exchange(StripScreenPrefix(StripScreenPrefix(turns[i].user)), Words(i + 50, n))
  IN /\ turns[i].at = "streaming"
     /\ chat' = TrimmedChat(AppendAll(ChatMessages, exchange), FALSE)
     /\ said' = AppendAll(said, exchange)
     /\ Leave(i)
     /\ UNCHANGED <<settings, tool, followup>>

\* Nothing of the stream became visible, or the turn ended before its stream.
TurnEnds(i) ==
  /\ turns[i].at = "streaming" \/ (turns[i].cancelled /\ turns[i].at \in {"planned", "classifying"})
  /\ Leave(i)
  /\ UNCHANGED <<settings, chat, tool, followup, said>>

Start == \E p \in StartPayloads : StartRefused(p) \/ StartAccepted(p)

NextMessage ==
  \E u \in Utterances, sampling \in Samplings :
    PlanMessage(u[1] \o Words(Len(turns) + 1, u[2]), sampling)

TurnStep(i) ==
  \/ BeginWithTool(i) \/ BeginChatOnly(i)
  \/ \E isTool \in BOOLEAN : Decide(i, isTool)
  \/ \E n \in AnswerLengths : CommitTurn(i, n)
  \/ TurnEnds(i)

Next == Start \/ CancelFirst \/ NextMessage \/ \E i \in DOMAIN turns : TurnStep(i)

Spec == Init /\ [][Next]_vars

-----------------------------------------------------------------------------
(* Properties *)

\* Every store exists exactly for a deployed model, and holds only messages and entries.
TypeOK ==
  /\ phase \in {"fresh", "started", "closed"} /\ followup \in BOOLEAN
  /\ chat # Null => DeployChat /\ \A n \in DOMAIN chat : chat[n].role \in Roles /\ chat[n].text # <<>>
  /\ tool # Null => DeployTool /\ \A n \in DOMAIN tool : tool[n].text # <<>>
  /\ \A i \in DOMAIN turns : turns[i].at \in {"planned", "classifying", "streaming", "over"}

(* After any sequence of imports and commits the chat store is below its    *)
(* trigger, or one turn alone exceeds it; the tool store is below its       *)
(* budget, always.                                                          *)
StoresAreBounded ==
  /\ chat # Null => \/ TranscriptTokens(chat) <= ChatTrigger
                    \/ Len(GroupTurns(chat)) = 1
  /\ tool # Null /\ ToolStoreBudget > 0 => ToolStoreTokens(tool) <= ToolStoreBudget

(* What the chat store holds is the most recent part of all that was said,  *)
(* whatever was trimmed, refused or committed late by an aborted turn.      *)
ChatIsRecent == chat # Null => IsSuffix(chat, said)

(* The tool store lists turns in the order they came in, each once: the     *)
(* clipped last entry and the imported ones keep their place.               *)
ToolTurnsInOrder ==
  tool # Null => \A m, n \in DOMAIN tool :
    m < n => \/ 0 < tool[m].id /\ tool[m].id < tool[n].id
             \/ tool[m].id < 0 /\ (tool[n].id > 0 \/ tool[n].id < tool[m].id)

PrefixTokens == ToSet(CheckPrefix) \cup ToSet(CheckedPrefix)

\* The prefixes a session may have.
ScreenPrefixes ==
  LET custom == {p.check : p \in StartPayloads} \cup {p.checked : p \in StartPayloads}
  IN ({DefaultCheck, DefaultChecked} \cup (custom \ {Null})) \ {<<>>}

HasNoPrefix(text) == \A p \in ScreenPrefixes : ToSet(text) \cap ToSet(p) = {}

(* What the code takes for granted of prefixes when it strips them, and     *)
(* nothing checks: that no two of them share a token, that a user says one   *)
(* as a whole and at the beginning, that nothing else that is said or        *)
(* imported has its tokens, and that each fits where a text is cut.          *)
PrefixesAreRecognisable ==
  /\ \A p, q \in ScreenPrefixes : p # q => ToSet(p) \cap ToSet(q) = {}
  /\ \A u \in Utterances : u[1] \in ScreenPrefixes \/ HasNoPrefix(u[1])
  /\ \A i \in 1..MaxTurns :
       /\ \A u \in Utterances : HasNoPrefix(Words(i, u[2]))
       /\ \A n \in AnswerLengths : HasNoPrefix(Words(i + 50, n))
  /\ \A p \in StartPayloads : p.history # Null =>
       \A n \in DOMAIN p.history : HasNoPrefix(p.history[n].text)
  /\ \A p \in ScreenPrefixes :
       /\ Len(p) <= UserMax
       /\ \A prompt \in {<<>>} \cup {q.prompt : q \in StartPayloads} :
            PromptTokens(prompt, <<>>, p) <= ChatMaxLen

(* "Prevents prefixes from polluting conversation history" (tokens/prefix.py *)
(* line 13): neither the client's prefix nor the one put in front for the    *)
(* model is remembered, in either store.                                     *)
NoPrefixRemembered ==
  /\ chat # Null => \A n \in DOMAIN chat : ToSet(chat[n].text) \cap PrefixTokens = {}
  /\ tool # Null => \A n \in DOMAIN tool : ToSet(tool[n].text) \cap PrefixTokens = {}

PromptSize(prompt) == 1 + SumOver(prompt, LAMBDA m : 2 + ChatCount(m.text))

(* No prompt exceeds the context, none has two messages of one role in a    *)
(* row, and each ends with the user, unless the user's text was a prefix.   *)
PromptsAreSound ==
  \A i \in DOMAIN turns : turns[i].prompt # <<>> =>
    /\ PromptSize(turns[i].prompt) <= ChatMaxLen
    /\ \A n \in 1..Len(turns[i].prompt) - 1 : turns[i].prompt[n].role # turns[i].prompt[n + 1].role
    /\ turns[i].user # <<>> => Last(turns[i].prompt).role = "user"

(* ADVANCED.md, line 406: a `sampling` object in the start overrides the    *)
(* chat decoding; line 497: a message's overrides the session's. A turn     *)
(* whose message asks for nothing runs with the session's.                  *)
SessionSamplingApplies ==
  DeployChat /\ (\A i \in DOMAIN turns : turns[i].asked = Null)
    => \A i \in DOMAIN turns : turns[i].sampling = meta.sampling

(* history/ops.py, line 24: "Drop oldest items until count_tokens(items) <=  *)
(* target_tokens". An import or a commit forgets no turn that would still    *)
(* have fitted.                                                             *)
TrimsNoMoreThanNeeded ==
  [][chat' # chat /\ phase' = "started" =>
       LET grown == SubSeq(said', Len(said) - Len(ChatMessages) + 1, Len(said'))
           all == GroupTurns(grown)
           dropped == Len(all) - Len(GroupTurns(chat'))
           From(n) == FlattenTurns(SubSeq(all, n + 1, Len(all)))
       IN dropped > 0 => TranscriptTokens(From(dropped - 1)) > ChatTarget]_vars

=============================================================================
