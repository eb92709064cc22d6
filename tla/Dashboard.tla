------------------------------ MODULE Dashboard -------------------------------
(***************************************************************************)
(* The dashboard's settings form: what the user types, what refreshes      *)
(* render over it, and what a save sends and the server makes of it.       *)
(*                                                                         *)
(* A page is single-threaded, but every call to the API is awaited: a      *)
(* refresh is asked for every five seconds whether or not the last one has *)
(* been answered, answers come in any order, and the user types and clicks *)
(* meanwhile.  Other pages and API clients change the same settings and    *)
(* create API keys.  The select of the form that holds the key offers only *)
(* keys of the list rendered last that are of the exchange now shown; it   *)
(* is rebuilt at every event of the form and at every refresh, and a key   *)
(* that is no longer offered is no longer selected.                        *)
(***************************************************************************)
EXTENDS FiniteSets

CONSTANTS
  None,
  Users,
  Keys, KeyExchange, KeyOwner,   \* API keys, of an exchange and a user
  FormFields,     \* settings the form shows
  HiddenFields,   \* settings the form lacks: neutral_band, fx_provider, ...
  ValuesOf,       \* per setting, its values
  Default,        \* settings of a new bot, and of what a request lacks
  Blank,          \* the form before anything was rendered into it
  Edits,          \* bound: fields the user edits, and what to
  Savers,         \* bound: users that save with the page
  OtherSaves,     \* bound: settings other clients save, and for whom
  Refreshes       \* bound: refreshes of the page's timer under way at a time

Fields == FormFields \cup HiddenFields
Assignments(fields) == [fields -> UNION {ValuesOf[f] : f \in fields}]
Settings == {s \in Assignments(Fields) : \A f \in Fields : s[f] \in ValuesOf[f]}
Forms    == {s \in Assignments(FormFields) : \A f \in FormFields : s[f] \in ValuesOf[f]}

ASSUME DashboardAssumption ==
  /\ {"exchange", "api_key_id", "strategy_type", "base_price"} \subseteq FormFields
  /\ FormFields \cap HiddenFields = {}
  /\ None \notin Users /\ "own" \notin Refreshes
  /\ ValuesOf["api_key_id"] = Keys \cup {None}
  /\ "base_price_gap" \in ValuesOf["strategy_type"]
  /\ KeyOwner \in [Keys -> Users]
  /\ KeyExchange \in [Keys -> ValuesOf["exchange"]]
  /\ Default \in Settings /\ Default["api_key_id"] = None
  /\ Blank \in Forms /\ Blank["api_key_id"] = None
  /\ \A e \in Edits : e[1] \in FormFields /\ e[2] \in ValuesOf[e[1]]
  /\ Savers \subseteq Users /\ OtherSaves \subseteq Users \X Settings

VARIABLES
  server,   \* per user, the settings of the bot
  keys,     \* per user, the API keys
  user,     \* whose token the page has, or None
  form,     \* what the form shows
  latestApiKeys,  \* the list of keys rendered last
  dirty,    \* settingsDirty: the user has typed something
  focus,    \* the active element is in the form
  gets,     \* per refresh, whose it is and the answers so far
  put,      \* the save under way
  known,    \* ghost: the settings the page takes for the server's
  unsaved,  \* ghost: fields the user has typed in and not yet saved
  during,   \* ghost: those typed while a save was under way, and not protected since
  unlisted  \* ghost: the key known was missing in a list rendered since

server_vars == <<server, keys>>
page  == <<user, form, latestApiKeys, dirty, focus>>
ghost == <<known, unsaved, during, unlisted>>
vars  == <<server_vars, page, gets, put, ghost>>

\* A save's own refresh, and the timer's.
Gets == Refreshes \cup {"own"}

Idle == [pc |-> "idle"]
Asked(u) == [pc |-> "asked", user |-> u, settings |-> None, keys |-> None]
Answered(g) == gets[g].pc = "asked" /\ gets[g].settings # None /\ gets[g].keys # None

Shown(settings) == [f \in FormFields |-> settings[f]]

Init ==
  /\ server = [u \in Users |-> Default]
  /\ keys = [u \in Users |-> {}]
  /\ user = None
  /\ form = Blank
  /\ latestApiKeys = {}
  /\ dirty = FALSE /\ focus = FALSE
  /\ gets = [g \in Gets |-> Idle]
  /\ put = Idle
  /\ known = Blank
  /\ unsaved = {} /\ during = {} /\ unlisted = FALSE

\* Mutant: only the focus keeps a refresh off the form.
IsEditingSettings_FocusOnly == focus

IsEditingSettings == dirty \/ focus

-------------------------------------------------------------------------------
(* What is rendered.                                                        *)

\* The keys to choose from: those listed, of the exchange shown.
Options(list, exchange) == {k \in list : KeyExchange[k] = exchange} \cup {None}

\* Mutant: the key stays selected if it is listed, of whatever exchange.
RenderApiKeys_AnyExchange(list, shown) ==
  [shown EXCEPT !["api_key_id"] = IF @ \in list THEN @ ELSE None]

\* The select is rebuilt; the key stays selected if it is still offered.
RenderApiKeys(list, shown) ==
  [shown EXCEPT !["api_key_id"] = IF @ \in Options(list, shown["exchange"]) THEN @ ELSE None]

\* Mutant: a setting without a value leaves its field alone.
RenderSettings_KeepsEmpty(settings, list) ==
  RenderApiKeys(list, [f \in FormFields |->
                         IF settings[f] = None THEN form[f] ELSE settings[f]])

\* Every field takes the setting's value, and the select its options.
RenderSettings(settings, list) == RenderApiKeys(list, settings)

-------------------------------------------------------------------------------
(* The user.                                                                *)

\* Login or registration; the refresh that follows is one of the timer's.  The
\* form, and the flag, are as the last user left them.
Login(u) ==
  /\ user = None
  /\ user' = u
  /\ UNCHANGED <<server_vars, form, latestApiKeys, dirty, focus, gets, put, ghost>>

\* The token is dropped and the form hidden; calls under way go on.
Logout ==
  /\ user # None
  /\ user' = None
  /\ focus' = FALSE
  /\ UNCHANGED <<server_vars, form, latestApiKeys, dirty, gets, put, ghost>>

Focus ==
  /\ user # None
  /\ focus' = ~focus
  /\ UNCHANGED <<server_vars, user, form, latestApiKeys, dirty, gets, put, ghost>>

\* What the form lets the user enter: a key that is offered, a base price only
\* under its strategy (before the first event of the form, nothing is disabled).
CanType(f, v) ==
  /\ f = "api_key_id" => v \in Options(latestApiKeys, form["exchange"])
  /\ f = "base_price" => form["strategy_type"] = "base_price_gap" \/ form = Blank

\* An input or change event of the form: it rebuilds the select of the key too.
Type(f, v) ==
  /\ user # None
  /\ v # form[f]
  /\ CanType(f, v)
  /\ form' = RenderApiKeys(latestApiKeys, [form EXCEPT ![f] = v])
  /\ dirty' = TRUE
  /\ focus' = TRUE
  /\ unsaved' = unsaved \cup {f}
  /\ during' = IF put.pc = "idle" THEN {} ELSE during \cup {f}
  /\ UNCHANGED <<server_vars, user, latestApiKeys, gets, put, known, unlisted>>

\* The save button is in the form, and disabled until the save and its refresh are
\* over; what becomes of the focus then is the browser's choice.
SaveSettings ==
  /\ user \in Savers
  /\ put.pc = "idle" /\ gets["own"].pc = "idle"
  /\ put' = [pc |-> "sent", user |-> user, payload |-> form,
             known |-> known, typed |-> unsaved, unlisted |-> unlisted]
  /\ during' = IF dirty THEN {} ELSE during
  /\ focus' \in BOOLEAN
  /\ UNCHANGED <<server_vars, user, form, latestApiKeys, dirty, gets, known, unsaved, unlisted>>

-------------------------------------------------------------------------------
(* The save.                                                                *)

\* A call made with the token of u has failed.  If it was refused, because there
\* was no token or it has expired, the token the page has now is dropped.
Unauthorized(u) ==
  /\ user' \in IF u = None THEN {None} ELSE {user, None}
  /\ focus' = (focus /\ user' # None)

\* The request schema fills in the settings the payload lacks.
FromPayload(payload) ==
  [f \in Fields |-> IF f \in FormFields THEN payload[f] ELSE Default[f]]

\* A base price brings its strategy with it.
WithStrategy(request) ==
  IF request["base_price"] = None
  THEN request ELSE [request EXCEPT !["strategy_type"] = "base_price_gap"]

\* PUT /bot/settings at the server: a key has to be the user's, and of the
\* exchange that is saved with it.
Store ==
  /\ put.pc = "sent"
  /\ put.payload["api_key_id"] \in Options(keys[put.user], put.payload["exchange"])
  /\ server' = [server EXCEPT ![put.user] = WithStrategy(FromPayload(put.payload))]
  /\ put' = [put EXCEPT !.pc = "stored"]
  /\ UNCHANGED <<keys, page, gets, ghost>>

\* Its answer: the flag is reset, the form left, and a refresh asked for.
Saved ==
  /\ put.pc = "stored"
  /\ put' = Idle
  /\ dirty' = FALSE
  /\ focus' = FALSE
  /\ gets' = [gets EXCEPT !["own"] = Asked(user)]
  /\ LET since == {f \in during : form[f] # put.payload[f]}
     IN  /\ during' = since
         /\ unsaved' = since
         /\ known' = [f \in FormFields |-> IF f \in since THEN put.payload[f] ELSE form[f]]
  /\ unlisted' = FALSE
  /\ UNCHANGED <<server_vars, user, form, latestApiKeys>>

\* It is refused, or it or its answer is lost: an error is shown.
SaveFails ==
  /\ put.pc \in {"sent", "stored"}
  /\ put' = Idle
  /\ Unauthorized(put.user)
  /\ during' = IF dirty THEN {} ELSE during
  /\ UNCHANGED <<server_vars, form, latestApiKeys, dirty, gets, known, unsaved, unlisted>>

-------------------------------------------------------------------------------
(* The refreshes.                                                           *)

\* Mutant: the page is refreshed after a save and not by a timer.
Timer_Never(g) == FALSE

\* The timer, when there is a token.
Timer(g) ==
  /\ user # None
  /\ gets[g].pc = "idle"
  /\ gets' = [gets EXCEPT ![g] = Asked(user)]
  /\ UNCHANGED <<server_vars, page, put, ghost>>

\* The server reads, in calls of their own, the settings and the keys of the user
\* whose token the refresh had.
ServeSettings(g) ==
  /\ gets[g].pc = "asked" /\ gets[g].settings = None
  /\ gets[g].user # None
  /\ gets' = [gets EXCEPT ![g].settings = Shown(server[gets[g].user])]
  /\ UNCHANGED <<server_vars, page, put, ghost>>

ServeApiKeys(g) ==
  /\ gets[g].pc = "asked" /\ gets[g].keys = None
  /\ gets[g].user # None
  /\ gets' = [gets EXCEPT ![g].keys = keys[gets[g].user]]
  /\ UNCHANGED <<server_vars, page, put, ghost>>

\* All answers are there.  The keys are rendered whether or not the user is
\* editing, the settings if not.
Render(g) ==
  /\ Answered(g)
  /\ gets' = [gets EXCEPT ![g] = Idle]
  /\ latestApiKeys' = gets[g].keys
  /\ \/ /\ IsEditingSettings
        /\ form' = RenderApiKeys(gets[g].keys, form)
        /\ unlisted' = (unlisted \/ known["api_key_id"] \notin gets[g].keys \cup {None})
        /\ UNCHANGED <<known, unsaved, during>>
     \/ /\ ~IsEditingSettings
        /\ form' = RenderSettings(gets[g].settings, gets[g].keys)
        /\ known' = gets[g].settings
        /\ unsaved' = {} /\ during' = {}
        /\ unlisted' = (gets[g].settings["api_key_id"] \notin gets[g].keys \cup {None})
  /\ UNCHANGED <<server_vars, user, dirty, focus, put>>

\* One of its calls fails; the others no longer matter.
RefreshFails(g) ==
  /\ gets[g].pc = "asked" /\ ~Answered(g)
  /\ gets' = [gets EXCEPT ![g] = Idle]
  /\ Unauthorized(gets[g].user)
  /\ UNCHANGED <<server_vars, form, latestApiKeys, dirty, put, ghost>>

-------------------------------------------------------------------------------
(* Other pages and API clients.                                             *)

\* Settings are saved.  The key is the user's; it need not be of the exchange that
\* is there when saves have overlapped (MismatchOnlyIfStale of Accounts).
OtherClient(u, settings) ==
  /\ server[u] # settings
  /\ settings["api_key_id"] \in keys[u] \cup {None}
  /\ server' = [server EXCEPT ![u] = settings]
  /\ UNCHANGED <<keys, page, gets, put, ghost>>

\* A key is created, in another form of the page or elsewhere; none is ever deleted.
CreateApiKey(k) ==
  /\ k \notin keys[KeyOwner[k]]
  /\ keys' = [keys EXCEPT ![KeyOwner[k]] = @ \cup {k}]
  /\ UNCHANGED <<server, page, gets, put, ghost>>

Next ==
  \/ \E u \in Users : Login(u)
  \/ Logout
  \/ Focus
  \/ \E e \in Edits : Type(e[1], e[2])
  \/ SaveSettings
  \/ Store \/ Saved \/ SaveFails
  \/ \E g \in Refreshes : Timer(g)
  \/ \E g \in Gets : ServeSettings(g) \/ ServeApiKeys(g) \/ Render(g) \/ RefreshFails(g)
  \/ \E s \in OtherSaves : OtherClient(s[1], s[2])
  \/ \E k \in Keys : CreateApiKey(k)

Spec == Init /\ [][Next]_vars

\* The timer goes on, and calls are answered or fail.
Fairness ==
  /\ WF_vars(Store \/ Saved \/ SaveFails)
  /\ \A g \in Refreshes : WF_vars(Timer(g))
  /\ \A g \in Gets : /\ WF_vars(ServeSettings(g) \/ ServeApiKeys(g) \/ RefreshFails(g))
                     /\ WF_vars(Render(g))

FairSpec == Spec /\ Fairness

-------------------------------------------------------------------------------
\* What a refresh, and a save, may be.
GetStates ==
  {Idle} \cup [pc : {"asked"}, user : Users \cup {None},
               settings : Forms \cup {None}, keys : (SUBSET Keys) \cup {None}]

PutStates ==
  {Idle} \cup [pc : {"sent", "stored"}, user : Users, payload : Forms,
               known : Forms, typed : SUBSET FormFields, unlisted : BOOLEAN]

TypeOK ==
  /\ server \in [Users -> Settings]
  /\ keys \in [Users -> SUBSET Keys]
  /\ user \in Users \cup {None}
  /\ form \in Forms /\ known \in Forms
  /\ latestApiKeys \in SUBSET Keys
  /\ gets \in [Gets -> GetStates]
  /\ put \in PutStates
  /\ dirty \in BOOLEAN /\ focus \in BOOLEAN /\ unlisted \in BOOLEAN
  /\ unsaved \subseteq FormFields /\ during \subseteq FormFields

\* A form, or the payload made of it, has the settings the page knows, except in
\* what was typed, and for a key that could not stay selected: it was not in a list
\* of keys, the exchange was changed, or it never was a key of the exchange.
Keeps(shown, settings, typed, wasUnlisted) ==
  \A f \in FormFields \ typed :
    \/ shown[f] = settings[f]
    \/ /\ f = "api_key_id" /\ shown[f] = None
       /\ \/ wasUnlisted
          \/ "exchange" \in typed
          \/ KeyExchange[settings[f]] # settings["exchange"]

\* A refresh that is rendered over what the user has typed and not saved, however
\* late it comes, takes nothing away but what was typed while a save was under way,
\* whose answer resets the flag, and a key that its list lacks (isEditingSettings,
\* saveSettings, renderApiKeys).
EditsKept ==
  [][\A g \in Gets, f \in unsaved :
       (gets[g] # Idle /\ gets'[g] = Idle /\ form'[f] # form[f])
         => \/ f \in during
            \/ f = "api_key_id" /\ form'[f] = None /\ form[f] \notin gets[g].keys]_vars

\* A save changes only settings typed in at this page, by its user or the last one,
\* unless the page's picture of the settings was out of date when save was clicked.
\* Three things are lost all the same: settings the form lacks, the key of the bot,
\* if the user changed the exchange, a list of keys lacked it or it was of another
\* exchange, and a strategy that was stored beside a base price it makes no use of
\* (saveSettings, renderApiKeys, update_bot_settings).
OverwritesOnlyIfStale ==
  [][(put.pc = "sent" /\ put'.pc = "stored") =>
       LET old == server[put.user]
           new == server'[put.user]
       IN  \A f \in Fields : new[f] # old[f] =>
             \/ f \in put.typed
             \/ put.known # Shown(old)
             \/ f \in HiddenFields /\ new[f] = Default[f]
             \/ /\ f = "api_key_id" /\ new[f] = None
                /\ \/ put.unlisted
                   \/ "exchange" \in put.typed
                   \/ KeyExchange[old[f]] # old["exchange"]
             \/ /\ f = "strategy_type" /\ new[f] = "base_price_gap"
                /\ new["base_price"] # None]_vars

\* Why the two hold: an edit is under the flag's protection or was typed during a
\* save; the key selected is one that is offered; what was not typed is what the
\* page takes for the server's, in the form and in the save that was made from it.
\* The server's key is always one of the user's.
EditInv == dirty \/ unsaved \subseteq during
KeyInv  == form["api_key_id"] \in Options(latestApiKeys, form["exchange"])
FormInv == Keeps(form, known, unsaved, unlisted)
PutInv  == put.pc # "idle" => Keeps(put.payload, put.known, put.typed, put.unlisted)
ServerInv == \A u \in Users : server[u]["api_key_id"] \in keys[u] \cup {None}

IInv == TypeOK /\ EditInv /\ KeyInv /\ FormInv /\ PutInv /\ ServerInv

\* When users have come to rest and calls no longer fail, the form comes to show
\* what the server has, the key only if it is one of the bot's exchange, even if an
\* old refresh was answered last (refresh, the timer).
FormConverges ==
  /\ <>[](user # None /\ ~IsEditingSettings /\ put.pc = "idle")
  /\ <>[][\A u \in Users : user = u => UNCHANGED <<server[u], keys[u]>>]_server_vars
  /\ <>[][\A g \in Gets : ~RefreshFails(g)]_vars
  => <>[](user \in {u \in Users : form = RenderSettings(Shown(server[u]), keys[u])})
===============================================================================
