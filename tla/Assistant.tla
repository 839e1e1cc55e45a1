------------------------------- MODULE Assistant -------------------------------
(***************************************************************************)
(* What the client asks a language model: InlineSuggestion over the        *)
(* terminal of the tab that is shown, and the Ask AI panel beside it. Each *)
(* request is an operation and streams its answer; both components keep    *)
(* the controller of "the" request in a ref, which each end of a request   *)
(* clears. An aborted request ends too, a moment later. An ended stream    *)
(* has ended with "done" or with an error (adapters, sse.ts).              *)
(***************************************************************************)
EXTENDS NativeBridge

VARIABLES
    asks,         \* the requests
    shownTab,     \* the tab whose terminal is shown
    autoSuggest,  \* the setting features.autoSuggest
    timer,        \* debounceTimer runs
    overlay,      \* the state of InlineSuggestion, and the request it is about
    inlineRef,    \* abortRef of InlineSuggestion
    panel,        \* the Ask AI panel: mounted, submitting, abortRef, pendingPrompt
    astray        \* history: requests whose ref the end of another one cleared,
                  \* and suggestions on the screen when their tab was left

assistantVars == <<asks, shownTab, autoSuggest, timer, overlay, inlineRef, panel, astray>>

(* Bound: one user's pace, for no action asks for it.                      *)
(* `fresh`: the line is as it was when the request read it. `bubble`: what *)
(* the panel shows of the request.                                         *)
Asked == [by : {"none", "inline", "panel"}, tab : {1, 2}, fresh : BOOLEAN, aborted : BOOLEAN,
          at : {"idle", "sent", "ended"}, bubble : {"none", "streaming", "still"}]
NotAsked == [by |-> "none", tab |-> 1, fresh |-> FALSE, aborted |-> FALSE, at |-> "idle", bubble |-> "none"]

AssistantTypeOK ==
    /\ asks \in [Op -> Asked] /\ shownTab \in {1, 2} /\ autoSuggest \in BOOLEAN /\ timer \in BOOLEAN
    /\ overlay \in [kind : {"idle", "loading", "visible", "error"}, of : 0 .. MaxOps]
    /\ inlineRef \in 0 .. MaxOps /\ astray \subseteq Op
    /\ panel \in [open : BOOLEAN, submitting : BOOLEAN, ref : 0 .. MaxOps, prompt : BOOLEAN]

Idle == [kind |-> "idle", of |-> None]
Mounted(prompt) == [open |-> TRUE, submitting |-> FALSE, ref |-> None, prompt |-> prompt]
AssistantInit ==
    /\ asks = [o \in Op |-> NotAsked] /\ shownTab = 1
    /\ "assistant" \in used => ~Hasty
    /\ autoSuggest \in IF "assistant" \in used THEN BOOLEAN ELSE {FALSE}
    /\ timer = FALSE /\ overlay = Idle /\ inlineRef = None /\ astray = {}
    /\ panel = [Mounted(FALSE) EXCEPT !.open = FALSE]

InFlight(o) == asks[o].at = "sent"
Aborted(as, o) == IF o = None THEN as ELSE [as EXCEPT ![o].aborted = TRUE]
Typed(as) == [o \in Op |-> [as[o] EXCEPT !.fresh = FALSE]]
Asks(by) == [NotAsked EXCEPT !.by = by, !.tab = shownTab, !.fresh = TRUE, !.at = "sent",
             !.bubble = IF by = "panel" THEN "streaming" ELSE "none"]

Helped == "assistant" \in used
(* The finally of request o clears the ref, of whatever request it is.     *)
Cleared(ref, o) == astray \cup ({ref} \ {None, o})

-----------------------------------------------------------------------------
(* InlineSuggestion                                                        *)

(* trigger(): the request before is aborted and this one is tracked.       *)
Trigger ==
    /\ Begin
    /\ asks' = [Aborted(asks, inlineRef) EXCEPT ![ops'] = Asks("inline")]
    /\ overlay' = [kind |-> "loading", of |-> ops'] /\ inlineRef' = ops'
    /\ UNCHANGED <<shared, ipc, shownTab, autoSuggest, panel, astray>>

RequestSuggestion == Helped /\ Trigger /\ UNCHANGED timer

(* The debounce timer: evaluateAutoSuggest() may say no.                   *)
AutoTrigger ==
    /\ timer /\ timer' = FALSE
    /\ \/ Trigger
       \/ UNCHANGED <<bridge, asks, shownTab, autoSuggest, overlay, inlineRef, panel, astray>>

(* dismiss(): only what is tracked is aborted.                             *)
Dismissed(as) == asks' = Aborted(as, inlineRef) /\ inlineRef' = None /\ overlay' = Idle

TypeKey ==
    /\ Helped
    /\ IF autoSuggest /\ overlay.kind # "idle" THEN Dismissed(Typed(asks))
       ELSE asks' = Typed(asks) /\ UNCHANGED <<overlay, inlineRef>>
    /\ timer' = autoSuggest
    /\ UNCHANGED <<bridge, shownTab, autoSuggest, panel, astray>>

PressEscape ==
    /\ overlay.kind # "idle"
    /\ Dismissed(asks)
    /\ UNCHANGED <<bridge, shownTab, autoSuggest, timer, panel, astray>>

(* The text goes to the session of the tab that is shown, and is its line. *)
Accept ==
    /\ overlay.kind = "visible"
    /\ overlay' = Idle /\ asks' = Typed(asks)
    /\ UNCHANGED <<bridge, shownTab, autoSuggest, timer, inlineRef, panel, astray>>

SuggestionEnds(o) ==
    /\ InFlight(o) /\ asks[o].by = "inline"
    /\ asks' = [asks EXCEPT ![o].at = "ended"]
    /\ inlineRef' = None /\ astray' = Cleared(inlineRef, o)
    /\ IF asks[o].aborted THEN UNCHANGED overlay
       ELSE overlay' \in {Idle} \cup {[kind |-> k, of |-> o] : k \in {"visible", "error"}}
    /\ UNCHANGED <<bridge, shownTab, autoSuggest, timer, panel>>

(* Another terminal: the effect is cleaned up, the state of the component  *)
(* stays.                                                                  *)
SwitchTab ==
    /\ Helped
    /\ shownTab' = 3 - shownTab /\ timer' = FALSE
    /\ asks' = Aborted(asks, inlineRef)
    /\ astray' = astray \cup (IF overlay.kind = "visible" THEN {overlay.of} ELSE {})
    /\ UNCHANGED <<bridge, autoSuggest, overlay, inlineRef, panel>>

-----------------------------------------------------------------------------
(* AskAiPanel                                                              *)

SendText(p) ==
    /\ Begin
    /\ asks' = [Aborted(asks, p.ref) EXCEPT ![ops'] = Asks("panel")]
    /\ panel' = [p EXCEPT !.ref = ops', !.submitting = TRUE]
    /\ UNCHANGED <<shared, ipc, shownTab, autoSuggest, timer, overlay, inlineRef, astray>>

Send == Helped /\ panel.open /\ ~panel.submitting /\ SendText(panel)

(* "Explain command" of the context menu: the panel is opened and sends    *)
(* the prompt, also when another answer still streams.                     *)
Explain ==
    /\ Helped
    /\ SendText(IF panel.open THEN [panel EXCEPT !.prompt = TRUE] ELSE Mounted(TRUE))

(* A new panel has handled no prompt yet: it sends the last one again.     *)
OpenPanel ==
    /\ Helped /\ ~panel.open
    /\ IF panel.prompt THEN SendText(Mounted(TRUE))
       ELSE /\ panel' = Mounted(FALSE)
            /\ UNCHANGED <<bridge, asks, shownTab, autoSuggest, timer, overlay, inlineRef, astray>>

(* Nothing aborts what it had asked; the answer is shown nowhere.          *)
ClosePanel ==
    /\ panel.open
    /\ panel' = [Mounted(panel.prompt) EXCEPT !.open = FALSE]
    /\ asks' = [o \in Op |-> [asks[o] EXCEPT !.bubble = "none"]]
    /\ UNCHANGED <<bridge, shownTab, autoSuggest, timer, overlay, inlineRef, astray>>

CancelStreaming ==
    /\ panel.submitting
    /\ asks' = Aborted(asks, panel.ref)
    /\ UNCHANGED <<bridge, shownTab, autoSuggest, timer, overlay, inlineRef, panel, astray>>

StreamEnds(o) ==
    /\ InFlight(o) /\ asks[o].by = "panel"
    /\ asks' = [asks EXCEPT ![o].at = "ended", ![o].bubble = IF @ = "none" THEN "none" ELSE "still"]
    /\ IF asks[o].bubble = "none" THEN UNCHANGED <<panel, astray>>
       ELSE /\ panel' = [panel EXCEPT !.submitting = FALSE, !.ref = None]
            /\ astray' = Cleared(panel.ref, o)
    /\ UNCHANGED <<bridge, shownTab, autoSuggest, timer, overlay, inlineRef>>

-----------------------------------------------------------------------------
AssistantNext ==
    \/ RequestSuggestion \/ AutoTrigger \/ TypeKey \/ PressEscape \/ Accept \/ SwitchTab
    \/ Send \/ Explain \/ OpenPanel \/ ClosePanel \/ CancelStreaming
    \/ \E o \in Op : SuggestionEnds(o) \/ StreamEnds(o)

(* In whatever order requests are made, aborted and answered, and tabs are *)
(* changed: a suggestion on the screen was made for the tab that is shown  *)
(* and, with automatic suggestions, for the line as it stands, so that Tab *)
(* inserts no late answer; one that loads is on its way, or was aborted    *)
(* with its tab; an answer that streams into the panel is the one that     *)
(* Stop aborts; and the panel says that it streams only while something    *)
(* does. The exceptions are the requests that went astray.                 *)
LateAnswersAreDropped ==
    /\ overlay.kind = "visible" /\ overlay.of \notin astray =>
         /\ asks[overlay.of].tab = shownTab
         /\ autoSuggest => asks[overlay.of].fresh
    /\ overlay.kind = "loading" /\ overlay.of \notin astray => InFlight(overlay.of) \/ asks[overlay.of].aborted
    /\ \A o \in Op \ astray : InFlight(o) /\ asks[o].bubble = "streaming" /\ ~asks[o].aborted =>
         panel.ref = o /\ panel.submitting
    /\ panel.submitting => \E o \in Op : InFlight(o) /\ asks[o].bubble = "streaming"

(* What InlineSuggestion.tsx says of its ref: "Track the in-flight         *)
(* controller so triggering a fresh suggestion or dismissing aborts the    *)
(* previous request without races." A request for a suggestion that is in  *)
(* flight and not aborted is the one that is tracked.                      *)
InFlightIsTracked ==
    \A o \in Op : asks[o].by = "inline" /\ InFlight(o) /\ ~asks[o].aborted => inlineRef = o
=============================================================================
