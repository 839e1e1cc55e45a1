------------------------------- MODULE AiSettings -------------------------------
(***************************************************************************)
(* The AI tab of the settings: the form, which is filled from the record   *)
(* of the vault when its id changes, the requests for a list of models and *)
(* for a test, which nothing cancels and whose answers are shown whatever  *)
(* the form holds by then, and the save. Key and endpoint, which are       *)
(* edited alike, are one value; there is one model beside "none picked".   *)
(***************************************************************************)
EXTENDS NativeBridge

VARIABLES
    stored,       \* server: the one record of the user
    query,        \* the query of the settings
    settings,     \* the form: the draft, hydratedFor, manualModel
    models,       \* what is shown of a list of models, and what it is about
    connection,   \* the same of a test
    fetches,      \* the list asked for: the draft of the click, without its id
    tests,        \* the test under way
    saving,       \* the mutation that saves: where it is, and its draft
    savedDraft,   \* the draft that "Saved." is shown about
    lost          \* history: a save or a read failed, or another device wrote

aiRowVars == <<stored, query>>
aiFormVars == <<settings, models, connection>>
aiVars == <<aiRowVars, aiFormVars, fetches, tests, saving, savedDraft, lost>>

AiRecord == [id : {"mine", "theirs"}, provider : {"keyed", "open"}, conn : {"", "c"}, model : {"m"}]
AiDraft == [id : {"none", "mine", "theirs"}, provider : {"keyed", "open"}, conn : {"", "c"}, model : {"", "m"}]
Accounts == [provider : {"keyed", "open"}, conn : {"", "c"}]
EmptyDraft == [id |-> "none", provider |-> "keyed", conn |-> "", model |-> ""]
NoAiRecord == [id |-> "__empty__"]
Unread == [id |-> "unread"]

(* What a list or a test is about.                                         *)
Account(d) == [provider |-> d.provider, conn |-> d.conn]
About(kind, about) == [kind |-> kind, about |-> about]
NotShown == About("idle", Account(EmptyDraft))
NotSaving == [at |-> "no", draft |-> EmptyDraft]

AiTypeOK ==
    /\ stored \in AiRecord \cup {NoAiRecord} /\ query \in AiRecord \cup {NoAiRecord, Unread}
    /\ settings \in [draft : AiDraft, hydrated : {"no", "__empty__", "mine", "theirs"}, manual : BOOLEAN]
    /\ models \in [kind : {"idle", "loading", "loaded", "error"}, about : Accounts]
    /\ connection \in [kind : {"idle", "testing", "answered"}, about : Accounts]
    /\ fetches \subseteq AiDraft /\ tests \subseteq Accounts
    /\ saving \in [at : {"no", "sent", "reading"}, draft : AiDraft]
    /\ savedDraft \in AiDraft /\ lost \in BOOLEAN

AiInit ==
    /\ stored = NoAiRecord /\ query = Unread
    /\ settings = [draft |-> EmptyDraft, hydrated |-> "no", manual |-> FALSE]
    /\ models = NotShown /\ connection = NotShown
    /\ fetches = {} /\ tests = {} /\ saving = NotSaving
    /\ savedDraft = EmptyDraft /\ lost = FALSE

aiDraft == settings.draft
(* The patient user waits for the settings to be there before saving them. *)
Attending == Hasty \/ query # Unread
Edited(d) == settings' = [settings EXCEPT !.draft = d]

-----------------------------------------------------------------------------
(* The form                                                                *)

(* Endpoint and model belong to a provider; the key stays. Bound: it is    *)
(* entered, not taken away.                                                *)
PickProvider(p) ==
    /\ p # aiDraft.provider
    /\ settings' = [settings EXCEPT !.draft.provider = p, !.draft.model = "", !.manual = FALSE]
    /\ connection' = NotShown /\ models' = NotShown
    /\ UNCHANGED <<bridge, aiRowVars, fetches, tests, saving, savedDraft, lost>>

EditConnection ==
    /\ aiDraft.conn = ""
    /\ Edited([aiDraft EXCEPT !.conn = "c"])
    /\ connection' = NotShown /\ models' = NotShown
    /\ UNCHANGED <<bridge, aiRowVars, fetches, tests, saving, savedDraft, lost>>

PickModel ==
    /\ models.kind = "loaded" /\ ~settings.manual
    /\ Edited([aiDraft EXCEPT !.model = "m"]) /\ connection' = NotShown
    /\ UNCHANGED <<bridge, aiRowVars, models, fetches, tests, saving, savedDraft, lost>>
TypeModel(m) ==
    /\ settings.manual /\ m # aiDraft.model
    /\ Edited([aiDraft EXCEPT !.model = m])
    /\ UNCHANGED <<bridge, aiRowVars, models, connection, fetches, tests, saving, savedDraft, lost>>
EnterManually ==
    /\ settings' = [settings EXCEPT !.manual = ~@]
    /\ UNCHANGED <<bridge, aiRowVars, models, connection, fetches, tests, saving, savedDraft, lost>>

-----------------------------------------------------------------------------
(* Lists of models, and tests, whose success and failure are not told      *)
(* apart: bound, one of them at once, and none of the hasty user, whose    *)
(* settings are read and written at other moments.                         *)

FetchModels ==
    /\ ~Hasty /\ models.kind # "loading" /\ fetches = {} /\ tests = {}
    /\ aiDraft.provider = "open" \/ aiDraft.conn # ""
    /\ models' = About("loading", Account(aiDraft)) /\ fetches' = {[aiDraft EXCEPT !.id = "none"]}
    /\ UNCHANGED <<bridge, aiRowVars, settings, connection, tests, saving, savedDraft, lost>>

(* A model that is not offered has to be chosen again: judged by the draft *)
(* of the click. Nothing offered, a failure and 15 seconds are errors.     *)
ModelsAnswer(d) ==
    /\ fetches' = {}
    /\ \E offered \in BOOLEAN :
         settings' = [settings EXCEPT !.manual = FALSE,
                        !.draft.model = IF offered /\ d.model = "m" THEN @ ELSE ""]
    /\ models' = About("loaded", Account(d))
    /\ UNCHANGED <<bridge, aiRowVars, connection, tests, saving, savedDraft, lost>>
NoModels(d) ==
    /\ fetches' = {}
    /\ models' = [NotShown EXCEPT !.kind = "error"]
    /\ UNCHANGED <<bridge, aiRowVars, settings, connection, tests, saving, savedDraft, lost>>

TestConnection ==
    /\ ~Hasty /\ connection.kind # "testing" /\ tests = {} /\ fetches = {} /\ aiDraft.model # ""
    /\ connection' = About("testing", Account(aiDraft)) /\ tests' = {Account(aiDraft)}
    /\ UNCHANGED <<bridge, aiRowVars, settings, models, fetches, saving, savedDraft, lost>>
ConnectionAnswer(a) ==
    /\ tests' = {}
    /\ connection' = About("answered", a)
    /\ UNCHANGED <<bridge, aiRowVars, settings, models, fetches, saving, savedDraft, lost>>

-----------------------------------------------------------------------------
(* The record                                                              *)

(* A render with another record fills the form.                            *)
Hydrate(q) ==
    /\ query' = q
    /\ settings' = IF q.id = settings.hydrated THEN settings
                   ELSE [settings EXCEPT !.hydrated = q.id, !.draft = IF q = NoAiRecord THEN aiDraft ELSE q]

ReadSettings ==
    /\ query = Unread \/ Hasty
    /\ Hydrate(stored)
    /\ UNCHANGED <<bridge, stored, models, connection, fetches, tests, saving, savedDraft, lost>>

SaveSettings ==
    /\ Attending /\ saving = NotSaving /\ aiDraft.model # ""
    /\ saving' = [at |-> "sent", draft |-> aiDraft] /\ savedDraft' = EmptyDraft
    /\ UNCHANGED <<bridge, aiRowVars, aiFormVars, fetches, tests, lost>>

(* A draft without an id makes a record, of which a user has one.          *)
Written == [saving.draft EXCEPT !.id = IF @ = "none" THEN "mine" ELSE @]
SettingsSaved ==
    /\ saving.at = "sent"
    /\ saving.draft.id = "none" => stored = NoAiRecord
    /\ stored' = Written
    /\ saving' = [saving EXCEPT !.at = "reading"]
    /\ UNCHANGED <<bridge, query, aiFormVars, fetches, tests, savedDraft, lost>>
SettingsNotSaved ==
    /\ saving.at = "sent"
    /\ stored' = stored \/ (stored' = Written /\ (saving.draft.id = "none" => stored = NoAiRecord))
    /\ saving' = NotSaving /\ lost' = TRUE
    /\ UNCHANGED <<bridge, query, aiFormVars, fetches, tests, savedDraft>>

(* The mutation waits for the settings to be read again; "Saved." is said  *)
(* also when they cannot be.                                               *)
SettingsReadAgain ==
    /\ saving.at = "reading"
    /\ \/ Hydrate(stored) /\ UNCHANGED lost
       \/ lost' = TRUE /\ UNCHANGED <<query, settings>>
    /\ saving' = NotSaving /\ savedDraft' = saving.draft
    /\ UNCHANGED <<bridge, stored, models, connection, fetches, tests>>

(* Another device saves settings.                                          *)
SettingsElsewhere ==
    /\ Hasty /\ stored = NoAiRecord
    /\ stored' = [EmptyDraft EXCEPT !.id = "theirs", !.provider = "open", !.model = "m"] /\ lost' = TRUE
    /\ UNCHANGED <<bridge, query, aiFormVars, fetches, tests, saving, savedDraft>>

-----------------------------------------------------------------------------
AiNext ==
    \/ \E p \in {"keyed", "open"} : PickProvider(p)
    \/ EditConnection
    \/ PickModel \/ EnterManually \/ FetchModels \/ TestConnection
    \/ \E m \in {"", "m"} : TypeModel(m)
    \/ \E d \in fetches : ModelsAnswer(d) \/ NoModels(d)
    \/ \E a \in tests : ConnectionAnswer(a)
    \/ ReadSettings \/ SaveSettings \/ SettingsSaved \/ SettingsNotSaved \/ SettingsReadAgain
    \/ SettingsElsewhere

(* No device's save replaces the record of another one as if it were new,  *)
(* whatever was edited, listed or tested while it was under way; and for a *)
(* user who saves when the settings are there: "Saved." is said of what    *)
(* the server holds, and as long as nothing failed, the next save updates  *)
(* that record.                                                            *)
SettingsAgree ==
    /\ settings.draft.id \in {"none", stored.id}
    /\ pace = "patient" =>
         /\ savedDraft # EmptyDraft => savedDraft = [stored EXCEPT !.id = savedDraft.id]
         /\ ~lost /\ saving = NotSaving /\ stored # NoAiRecord => aiDraft.id = stored.id

(* The models that are offered and the test that is shown are those of the *)
(* provider and the key in the form. The code does not see to it: a list   *)
(* or a test is shown whatever was entered since it was asked for.         *)
AnswersFitTheForm ==
    /\ models.kind = "loaded" => models.about = Account(aiDraft)
    /\ connection.kind = "answered" => connection.about = Account(aiDraft)
=============================================================================
