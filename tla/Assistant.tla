----------------------------- MODULE Assistant ------------------------------
(***************************************************************************)
(* The sales assistant: the chat page, which sends the whole conversation  *)
(* with every question; AssistantService.ask; and the adapter's loop       *)
(* around the language model, which answers with text, asks for tools to   *)
(* be run, or pauses.  A question whose connection broke goes on being     *)
(* answered, with nobody listening.                                        *)
(***************************************************************************)
EXTENDS Naturals, Sequences, FiniteSets

CONSTANTS
  Asks,             \* slots for questions under way at the API
  Tools,            \* names the model may ask for, unknown ones included
  MaxRoundtrips,    \* MAX_TOOL_ROUNDTRIPS
  MaxConversation,  \* longest conversation the contract accepts
  MaxQuestions      \* bound: questions asked

ASSUME AssistantAssumption ==
  MaxRoundtrips \in Nat /\ MaxConversation \in Nat /\ MaxQuestions \in Nat

VARIABLES
  configured,       \* adapter.isConfigured()
  turns,            \* the page's chat, as <<role, number of the question>>
  sending,          \* the page's flag
  questions,        \* history: questions asked
  ask               \* questions under way

assistantVars == <<configured, turns, sending, questions, ask>>

AskIdle == [step |-> "idle", heard |-> FALSE, question |-> 0, conversation |-> <<>>,
            messages |-> <<>>, round |-> 0, left |-> {}, results |-> {}, calls |-> 0]

AssistantInit ==
  /\ configured \in BOOLEAN
  /\ turns = <<>> /\ sending = FALSE /\ questions = 0
  /\ ask = [k \in Asks |-> AskIdle]

\* Messages of a request to the model: what was said, tools asked for, results.
Said(role) == [role |-> role, uses |-> {}, results |-> {}]
Using(blocks) == [Said("assistant") EXCEPT !.uses = blocks]
ToolResults(results) == [Said("user") EXCEPT !.results = results]

\* The question is over at the API; nobody may be waiting for the answer.
EndAsk(k, outcome) ==
  ask' = [ask EXCEPT ![k] = IF ask[k].heard THEN [ask[k] EXCEPT !.step = outcome]
                                            ELSE AskIdle]
-----------------------------------------------------------------------------
(* The page *)

\* handleAsk: the question is shown at once.
HandleAsk(k) ==
  /\ ~sending /\ ask[k].step = "idle" /\ questions < MaxQuestions
  /\ questions' = questions + 1
  /\ turns' = Append(turns, <<"user", questions + 1>>)
  /\ sending' = TRUE
  /\ ask' = [ask EXCEPT ![k] = [AskIdle EXCEPT
               !.step = "sent", !.heard = TRUE, !.question = questions + 1,
               !.conversation = turns]]
  /\ UNCHANGED configured

AnswerShown(k) ==
  /\ ask[k].heard /\ ask[k].step = "answered"
  /\ turns' = ask[k].conversation
                \o << <<"user", ask[k].question>>, <<"assistant", ask[k].question>> >>
  /\ sending' = FALSE
  /\ ask' = [ask EXCEPT ![k] = AskIdle]
  /\ UNCHANGED <<configured, questions>>

\* Mutant: the question stays in the chat.
RolledBackNot(k) == turns

\* setTurns(turns), of the render that asked.
RolledBack(k) == ask[k].conversation

\* The API failed, or the connection broke and the API goes on alone.
AskFailed(k) ==
  /\ ask[k].heard
  /\ turns' = RolledBack(k)
  /\ sending' = FALSE
  /\ \/ /\ ask[k].step \in {"sent", "answered", "failed"}
        /\ ask' = [ask EXCEPT ![k] = AskIdle]
     \/ /\ ask[k].step \in {"sent", "model", "tools"}
        /\ ask' = [ask EXCEPT ![k].heard = FALSE]
  /\ UNCHANGED <<configured, questions>>
-----------------------------------------------------------------------------
(* The API *)

\* The contract, then isConfigured, then the conversation with the question.
Receive(k) ==
  /\ ask[k].step = "sent"
  /\ IF Len(ask[k].conversation) <= MaxConversation /\ configured
       THEN ask' = [ask EXCEPT ![k].step = "model",
              ![k].messages = [i \in 1..Len(ask[k].conversation) |->
                                 Said(ask[k].conversation[i][1])] \o <<Said("user")>>]
       ELSE EndAsk(k, "failed")
  /\ UNCHANGED <<configured, turns, sending, questions>>

\* roundtrip++, by `continue` as well.
NextRound(k) == ask[k].round + 1

\* stop_reason pause_turn: what there is goes back to the model.  After the last
\* round the loop ends, and the fallback text is the answer.
Paused(k) ==
  IF NextRound(k) > MaxRoundtrips
    THEN EndAsk(k, "answered")
    ELSE ask' = [ask EXCEPT ![k].round = NextRound(k), ![k].calls = @ + 1,
                            ![k].messages = Append(@, Said("assistant"))]

\* The model answers: it pauses, or speaks, or wants tools run, which it is not
\* granted in the last round.
ModelAnswers(k) ==
  /\ ask[k].step = "model"
  /\ \/ Paused(k)
     \/ \E blocks \in SUBSET Tools :
          IF blocks = {} \/ ask[k].round = MaxRoundtrips
            THEN EndAsk(k, "answered")
            ELSE ask' = [ask EXCEPT ![k].step = "tools", ![k].left = blocks,
                   ![k].results = {}, ![k].calls = @ + 1,
                   ![k].messages = Append(@, Using(blocks))]
  /\ UNCHANGED <<configured, turns, sending, questions>>

ModelFails(k) ==
  /\ ask[k].step = "model"
  /\ EndAsk(k, "failed")
  /\ UNCHANGED <<configured, turns, sending, questions>>

\* Mutant: a tool that fails leaves no result.
ToolAnsweredOnSuccess(k, t, ok) ==
  IF ok THEN ask[k].results \union {t} ELSE ask[k].results

\* toolResults.push, of the result or of the error.
ToolAnswered(k, t, ok) == ask[k].results \union {t}

\* One tool is run; with the last one the results go back to the model.
ExecuteTool(k, t, ok) ==
  /\ ask[k].step = "tools" /\ t \in ask[k].left
  /\ ask' = [ask EXCEPT ![k] =
       IF ask[k].left = {t}
         THEN [ask[k] EXCEPT
                 !.step = "model", !.round = NextRound(k), !.left = {}, !.results = {},
                 !.messages = Append(ask[k].messages, ToolResults(ToolAnswered(k, t, ok)))]
         ELSE [ask[k] EXCEPT !.left = ask[k].left \ {t},
                             !.results = ToolAnswered(k, t, ok)]]
  /\ UNCHANGED <<configured, turns, sending, questions>>

AssistantNext ==
  \E k \in Asks :
    \/ HandleAsk(k) \/ AnswerShown(k) \/ AskFailed(k)
    \/ Receive(k) \/ ModelAnswers(k) \/ ModelFails(k)
    \/ \E t \in Tools, ok \in BOOLEAN : ExecuteTool(k, t, ok)

AssistantSpec == AssistantInit /\ [][AssistantNext]_assistantVars
-----------------------------------------------------------------------------
(* Properties *)

\* The chat is a sequence of questions, each with its own answer, whatever
\* failed or came too late in between; the question under way is last.
TurnsPaired ==
  /\ (Len(turns) % 2 = 1) <=> sending
  /\ \A i \in 1..Len(turns) :
       turns[i] = IF i % 2 = 1 THEN <<"user", turns[i][2]>>
                               ELSE <<"assistant", turns[i - 1][2]>>
  /\ \A i, j \in 1..Len(turns) : i < j => turns[i][2] <= turns[j][2]

\* Every request to the model is one it accepts: it begins with the user, and
\* the tools asked for in a message are answered, all of them, in the next.
RequestsWellFormed ==
  \A k \in Asks : ask[k].step = "model" =>
    LET m == ask[k].messages IN
      /\ m[1] = Said("user")
      /\ \A i \in 1..Len(m) :
           /\ m[i].uses # {} => i < Len(m) /\ m[i + 1] = ToolResults(m[i].uses)
           /\ m[i].results # {} => i > 1 /\ m[i - 1].uses = m[i].results

\* A question costs at most MAX_TOOL_ROUNDTRIPS + 1 calls of the model, however
\* the model answers.
CallsBounded == \A k \in Asks : ask[k].step = "model" => ask[k].calls <= MaxRoundtrips

\* The loop around the model keeps to its terms: every request is well formed,
\* also after a tool failed or the model paused, and their number is bounded.
LoopKeepsTerms == RequestsWellFormed /\ CallsBounded
=============================================================================
