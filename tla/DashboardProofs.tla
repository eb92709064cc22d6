---------------------------- MODULE DashboardProofs ----------------------------
(* Proofs about Dashboard, for any users, keys, fields, values, edits, saves
   of other clients and refreshes.                                          *)
EXTENDS Dashboard, TLAPS

LEMMA InitIInv == Init => IInv
<1> SUFFICES ASSUME Init PROVE IInv
  OBVIOUS
<1> USE DashboardAssumption DEF Init, Idle
<1>1. TypeOK
  BY DEF TypeOK, GetStates, PutStates
<1>2. EditInv /\ KeyInv /\ FormInv /\ PutInv /\ ServerInv
  BY DEF EditInv, KeyInv, Options, FormInv, Keeps, PutInv, ServerInv
<1> QED
  BY <1>1, <1>2 DEF IInv

\* A form has the fields the code names, and one may be given another of its values.
LEMMA FormValues ==
  ASSUME NEW s \in Forms
  PROVE  /\ s = [f \in FormFields |-> s[f]]
         /\ \A f \in FormFields : s[f] \in ValuesOf[f]
         /\ s["api_key_id"] \in Keys \cup {None}
         /\ \A f \in FormFields : \A v \in ValuesOf[f] : [s EXCEPT ![f] = v] \in Forms
<1>1. s = [f \in FormFields |-> s[f]] /\ \A f \in FormFields : s[f] \in ValuesOf[f]
  BY DEF Forms, Assignments
<1>2. ASSUME NEW f \in FormFields, NEW v \in ValuesOf[f]
      PROVE  [s EXCEPT ![f] = v] \in Forms
  BY <1>1 DEF Forms, Assignments
<1> QED
  BY <1>1, <1>2, DashboardAssumption

\* Rebuilding the select changes the key only, to none if it is no longer offered.
LEMMA RenderedKeys ==
  ASSUME NEW list, NEW s \in Forms
  PROVE  LET r == RenderApiKeys(list, s)
         IN  /\ r \in Forms
             /\ \A f \in FormFields \ {"api_key_id"} : r[f] = s[f]
             /\ r["api_key_id"] \in Options(list, r["exchange"])
             /\ s["api_key_id"] \in Options(list, s["exchange"])
                  => r["api_key_id"] = s["api_key_id"]
             /\ s["api_key_id"] \notin Options(list, s["exchange"])
                  => r["api_key_id"] = None
<1> USE DashboardAssumption
<1> DEFINE k == IF s["api_key_id"] \in Options(list, s["exchange"])
                THEN s["api_key_id"] ELSE None
<1>1. RenderApiKeys(list, s) = [s EXCEPT !["api_key_id"] = k]
  BY DEF RenderApiKeys
<1>2. k \in ValuesOf["api_key_id"]
  BY FormValues
<1>3. RenderApiKeys(list, s) \in Forms
  <2>1. \A v \in ValuesOf["api_key_id"] : [s EXCEPT !["api_key_id"] = v] \in Forms
    BY FormValues
  <2> HIDE DEF k
  <2> QED
    BY <1>1, <1>2, <2>1
<1>4. s = [f \in FormFields |-> s[f]]
  BY FormValues
<1>5. /\ RenderApiKeys(list, s)["api_key_id"] = k
      /\ \A f \in FormFields \ {"api_key_id"} : RenderApiKeys(list, s)[f] = s[f]
  BY <1>1, <1>4
<1>6. k \in Options(list, s["exchange"])
  BY DEF Options
<1> QED
  BY <1>3, <1>5, <1>6

\* What the server has of the form's fields is a form.
LEMMA ShownType == ASSUME NEW s \in Settings PROVE Shown(s) \in Forms
BY DEF Shown, Settings, Forms, Fields, Assignments

\* What is stored of a payload: complete settings, which differ from it in the
\* strategy only, and have the default of what it lacks.
LEMMA Stored ==
  ASSUME NEW p \in Forms
  PROVE  LET s == WithStrategy(FromPayload(p))
         IN  /\ s \in Settings
             /\ \A f \in FormFields \ {"strategy_type"} : s[f] = p[f]
             /\ \/ s["strategy_type"] = p["strategy_type"]
                \/ s["strategy_type"] = "base_price_gap" /\ p["base_price"] # None
             /\ \A f \in HiddenFields : s[f] = Default[f]
<1> USE DashboardAssumption
<1> DEFINE q == FromPayload(p)
           s == WithStrategy(q)
<1>1. /\ q = [f \in Fields |-> q[f]]
      /\ \A f \in FormFields : q[f] = p[f]
      /\ \A f \in HiddenFields : q[f] = Default[f]
  BY DEF FromPayload, Fields
<1>2. \A f \in Fields : q[f] \in ValuesOf[f]
  BY <1>1, FormValues DEF Settings, Fields
<1> HIDE DEF q
<1>3. /\ s = [f \in Fields |-> s[f]]
      /\ \A f \in Fields \ {"strategy_type"} : s[f] = q[f]
      /\ \/ s["strategy_type"] = q["strategy_type"]
         \/ s["strategy_type"] = "base_price_gap" /\ q["base_price"] # None
  BY <1>1 DEF WithStrategy, Fields
<1>4. \A f \in Fields : s[f] \in ValuesOf[f]
  BY <1>2, <1>3
<1>5. s \in Settings
  BY <1>3, <1>4 DEF Settings, Assignments
<1>6. \A f \in HiddenFields : f \in Fields \ {"strategy_type"}
  BY DEF Fields
<1>7. \A f \in FormFields : f \in Fields
  BY DEF Fields
<1> HIDE DEF s
<1>8. /\ \A f \in FormFields \ {"strategy_type"} : s[f] = p[f]
      /\ \A f \in HiddenFields : s[f] = Default[f]
  BY <1>1, <1>3, <1>6, <1>7
<1>9. \/ s["strategy_type"] = p["strategy_type"]
      \/ s["strategy_type"] = "base_price_gap" /\ p["base_price"] # None
  BY <1>1, <1>3
<1> QED
  BY <1>5, <1>8, <1>9 DEF q, s

\* A refresh knows, when all is answered, the fields of a form and a set of keys.
LEMMA Answers ==
  ASSUME TypeOK, NEW g \in Gets, Answered(g)
  PROVE  gets[g].settings \in Forms /\ gets[g].keys \in SUBSET Keys
<1>1. gets[g] \in GetStates /\ gets[g].pc = "asked"
  BY DEF TypeOK, Answered
<1>2. gets[g].settings \in Forms \cup {None} /\ gets[g].keys \in (SUBSET Keys) \cup {None}
  BY <1>1 DEF GetStates, Idle
<1> QED
  BY <1>2 DEF Answered

LEMMA AskedType ==
  ASSUME TypeOK, NEW g \in Gets, gets' = [gets EXCEPT ![g] = Asked(user)]
  PROVE  gets' \in [Gets -> GetStates]
<1>1. Asked(user) \in GetStates
  BY DEF TypeOK, GetStates, Asked
<1> QED
  BY <1>1 DEF TypeOK

\* What the user does: only typing touches the form.
LEMMA UserStep ==
  ASSUME IInv,
         \/ \E u \in Users : Login(u)
         \/ Logout \/ Focus
         \/ \E e \in Edits : Type(e[1], e[2])
         \/ SaveSettings
  PROVE  IInv'
<1> USE DEF IInv, server_vars, ghost
<1>1. CASE \E u \in Users : Login(u)
  BY <1>1 DEF Login, TypeOK, EditInv, KeyInv, FormInv, Keeps, PutInv, ServerInv
<1>2. CASE Logout
  BY <1>2 DEF Logout, TypeOK, EditInv, KeyInv, FormInv, Keeps, PutInv, ServerInv
<1>3. CASE Focus
  BY <1>3 DEF Focus, TypeOK, EditInv, KeyInv, FormInv, Keeps, PutInv, ServerInv
<1>4. CASE \E e \in Edits : Type(e[1], e[2])
  <2>1. PICK e \in Edits : Type(e[1], e[2])
    BY <1>4
  <2> DEFINE f == e[1]
             v == e[2]
  <2>2. f \in FormFields /\ v \in ValuesOf[f] /\ Type(f, v)
    BY <2>1, DashboardAssumption
  <2> HIDE DEF f, v
  <2> DEFINE typed == [form EXCEPT ![f] = v]
  <2>3. /\ typed \in Forms
        /\ typed[f] = v
        /\ \A h \in FormFields \ {f} : typed[h] = form[h]
    BY <2>2, FormValues DEF TypeOK
  <2>4. form' = RenderApiKeys(latestApiKeys, typed)
    BY <2>2 DEF Type
  <2> HIDE DEF typed
  <2>5. /\ form' \in Forms
        /\ \A h \in FormFields \ {"api_key_id"} : form'[h] = typed[h]
        /\ form'["api_key_id"] \in Options(latestApiKeys, form'["exchange"])
        /\ typed["api_key_id"] \in Options(latestApiKeys, typed["exchange"])
             => form'["api_key_id"] = typed["api_key_id"]
        /\ typed["api_key_id"] \notin Options(latestApiKeys, typed["exchange"])
             => form'["api_key_id"] = None
    BY <2>3, <2>4, RenderedKeys
  <2>6. TypeOK'
    BY <2>2, <2>5 DEF Type, TypeOK
  <2>7. EditInv' /\ KeyInv'
    BY <2>2, <2>5 DEF Type, EditInv, KeyInv
  <2>8. ASSUME NEW h \in FormFields \ unsaved', h # "api_key_id"
        PROVE  form'[h] = known'[h]
    BY <2>2, <2>3, <2>5, <2>8 DEF Type, FormInv, Keeps
  <2>9. ASSUME "api_key_id" \notin unsaved', "exchange" \notin unsaved'
        PROVE  form'["api_key_id"] = form["api_key_id"]
    <3>1. typed["api_key_id"] = form["api_key_id"] /\ typed["exchange"] = form["exchange"]
      BY <2>2, <2>3, <2>9, DashboardAssumption DEF Type
    <3> QED
      BY <3>1, <2>5 DEF KeyInv
  <2>10. ASSUME "api_key_id" \notin unsaved', "exchange" \in unsaved'
         PROVE  form'["api_key_id"] \in {form["api_key_id"], None}
    <3>1. typed["api_key_id"] = form["api_key_id"]
      BY <2>2, <2>3, <2>10, DashboardAssumption DEF Type
    <3> QED
      BY <3>1, <2>5
  <2>11. FormInv'
    <3>1. unsaved \subseteq unsaved' /\ known' = known /\ unlisted' = unlisted
      BY <2>2 DEF Type
    <3> QED
      BY <2>8, <2>9, <2>10, <3>1 DEF FormInv, Keeps
  <2>12. PutInv' /\ ServerInv'
    BY <2>2 DEF Type, PutInv, ServerInv
  <2> QED
    BY <2>6, <2>7, <2>11, <2>12
<1>5. CASE SaveSettings
  <2>1. TypeOK'
    BY <1>5, DashboardAssumption DEF SaveSettings, TypeOK, PutStates
  <2>2. EditInv' /\ KeyInv' /\ FormInv' /\ PutInv' /\ ServerInv'
    BY <1>5 DEF SaveSettings, TypeOK, EditInv, KeyInv, FormInv, PutInv, ServerInv
  <2> QED
    BY <2>1, <2>2
<1> QED
  BY <1>1, <1>2, <1>3, <1>4, <1>5

LEMMA SaveStep ==
  ASSUME IInv, Store \/ Saved \/ SaveFails
  PROVE  IInv'
<1> USE DEF IInv, server_vars, page, ghost
<1>1. CASE Store
  <2>1. put \in PutStates /\ put.pc = "sent"
    BY <1>1 DEF Store, TypeOK
  <2>2. put.payload \in Forms /\ put.user \in Users
    BY <2>1 DEF PutStates, Idle
  <2>3. server' \in [Users -> Settings]
    BY <1>1, <2>2, Stored DEF Store, TypeOK
  <2>4. put' \in PutStates
    BY <1>1, <2>1 DEF Store, PutStates, Idle
  <2>5. TypeOK'
    BY <1>1, <2>3, <2>4 DEF Store, TypeOK
  <2>6. /\ put'.payload = put.payload /\ put'.known = put.known
        /\ put'.typed = put.typed /\ put'.unlisted = put.unlisted
    BY <1>1, <2>1 DEF Store, PutStates, Idle
  <2>7. EditInv' /\ KeyInv' /\ FormInv' /\ PutInv'
    BY <1>1, <2>1, <2>6 DEF Store, EditInv, KeyInv, FormInv, PutInv
  <2>8. ServerInv'
    <3>1. WithStrategy(FromPayload(put.payload))["api_key_id"] \in keys[put.user] \cup {None}
      BY <1>1, <2>2, Stored, DashboardAssumption DEF Store, Options
    <3> QED
      BY <1>1, <2>2, <3>1 DEF Store, ServerInv, TypeOK
  <2> QED
    BY <2>5, <2>7, <2>8
<1>2. CASE Saved
  <2> DEFINE since == {f \in during : form[f] # put.payload[f]}
  <2>1. /\ put \in PutStates /\ put.pc = "stored"
        /\ during' = since /\ unsaved' = since
        /\ known' = [f \in FormFields |-> IF f \in since THEN put.payload[f] ELSE form[f]]
        /\ form' = form
    BY <1>2 DEF Saved, TypeOK
  <2>2. put.payload \in Forms
    BY <2>1 DEF PutStates, Idle
  <2>3. since \subseteq FormFields /\ known' \in Forms
    BY <2>1, <2>2 DEF TypeOK, Forms, Assignments
  <2>4. gets' \in [Gets -> GetStates]
    BY <1>2, AskedType DEF Saved, Gets
  <2>5. TypeOK'
    BY <1>2, <2>1, <2>3, <2>4 DEF Saved, TypeOK, PutStates
  <2>6. FormInv'
    BY <2>1 DEF FormInv, Keeps
  <2>7. EditInv' /\ KeyInv' /\ PutInv' /\ ServerInv'
    BY <1>2, <2>1 DEF Saved, EditInv, KeyInv, PutInv, ServerInv, Idle
  <2> QED
    BY <2>5, <2>6, <2>7
<1>3. CASE SaveFails
  <2>1. TypeOK'
    BY <1>3 DEF SaveFails, Unauthorized, TypeOK, PutStates
  <2>2. EditInv' /\ KeyInv' /\ FormInv' /\ PutInv' /\ ServerInv'
    BY <1>3 DEF SaveFails, EditInv, KeyInv, FormInv, PutInv, ServerInv, Idle
  <2> QED
    BY <2>1, <2>2
<1> QED
  BY <1>1, <1>2, <1>3

\* What only a refresh's progress changes.
LEMMA GetStep ==
  ASSUME IInv, gets' \in [Gets -> GetStates],
         UNCHANGED <<server_vars, page, put, ghost>>
  PROVE  IInv'
BY DEF IInv, server_vars, page, ghost, TypeOK, EditInv, KeyInv, FormInv, Keeps, PutInv,
       ServerInv

LEMMA RefreshStep ==
  ASSUME IInv,
         \/ \E g \in Refreshes : Timer(g)
         \/ \E g \in Gets : ServeSettings(g) \/ ServeApiKeys(g) \/ Render(g) \/ RefreshFails(g)
  PROVE  IInv'
<1> USE DEF IInv
<1>1. CASE \E g \in Refreshes : Timer(g)
  <2>1. gets' \in [Gets -> GetStates]
    BY <1>1, AskedType DEF Timer, Gets
  <2> QED
    BY <1>1, <2>1, GetStep DEF Timer
<1>2. ASSUME NEW g \in Gets, ServeSettings(g) PROVE IInv'
  <2>1. gets[g] \in GetStates /\ gets[g].pc = "asked" /\ gets[g].user # None
    BY <1>2 DEF ServeSettings, TypeOK
  <2>2. gets[g].user \in Users
    BY <2>1 DEF GetStates, Idle
  <2>3. Shown(server[gets[g].user]) \in Forms
    BY <2>2, ShownType DEF TypeOK
  <2>4. gets' \in [Gets -> GetStates]
    BY <1>2, <2>1, <2>3 DEF ServeSettings, TypeOK, GetStates, Idle
  <2> QED
    BY <1>2, <2>4, GetStep DEF ServeSettings
<1>3. ASSUME NEW g \in Gets, ServeApiKeys(g) PROVE IInv'
  <2>1. gets[g] \in GetStates /\ gets[g].pc = "asked" /\ gets[g].user # None
    BY <1>3 DEF ServeApiKeys, TypeOK
  <2>2. gets[g].user \in Users
    BY <2>1 DEF GetStates, Idle
  <2>3. gets' \in [Gets -> GetStates]
    BY <1>3, <2>1, <2>2 DEF ServeApiKeys, TypeOK, GetStates, Idle
  <2> QED
    BY <1>3, <2>3, GetStep DEF ServeApiKeys
<1>4. ASSUME NEW g \in Gets, Render(g) PROVE IInv'
  <2> DEFINE list == gets[g].keys
             settings == gets[g].settings
  <2>1. settings \in Forms /\ list \in SUBSET Keys
    BY <1>4, Answers DEF Render
  <2>2. gets' \in [Gets -> GetStates]
    BY <1>4 DEF Render, TypeOK, GetStates
  <2>3. /\ latestApiKeys' = list
        /\ UNCHANGED <<server, keys, user, dirty, focus, put>>
    BY <1>4 DEF Render, server_vars
  <2>4. PutInv' /\ ServerInv'
    BY <2>3 DEF PutInv, ServerInv
  <2>5. CASE IsEditingSettings
    <3>1. /\ form' = RenderApiKeys(list, form)
          /\ unlisted' = (unlisted \/ known["api_key_id"] \notin list \cup {None})
          /\ UNCHANGED <<known, unsaved, during>>
      BY <1>4, <2>5 DEF Render
    <3>2. form \in Forms
      BY DEF TypeOK
    <3>3. /\ form' \in Forms
          /\ \A f \in FormFields \ {"api_key_id"} : form'[f] = form[f]
          /\ form'["api_key_id"] \in Options(list, form'["exchange"])
          /\ form["api_key_id"] \in Options(list, form["exchange"])
               => form'["api_key_id"] = form["api_key_id"]
          /\ form["api_key_id"] \notin Options(list, form["exchange"])
               => form'["api_key_id"] = None
      BY <3>1, <3>2, RenderedKeys
    <3>4. unlisted' \in BOOLEAN
      BY <3>1
    <3>5. TypeOK'
      BY <2>1, <2>2, <2>3, <3>1, <3>3, <3>4 DEF TypeOK
    <3>6. EditInv' /\ KeyInv'
      BY <2>3, <3>1, <3>3 DEF EditInv, KeyInv
    <3>7. ASSUME form["api_key_id"] # None, form["api_key_id"] \in list
          PROVE  form'["api_key_id"] = form["api_key_id"]
      BY <3>3, <3>7 DEF KeyInv, Options
    <3>8. form'["api_key_id"] \in {form["api_key_id"], None}
      BY <3>3
    <3>9. FormInv'
      BY <3>1, <3>3, <3>7, <3>8 DEF FormInv, Keeps
    <3> QED
      BY <2>4, <3>5, <3>6, <3>9
  <2>6. CASE ~IsEditingSettings
    <3>1. /\ form' = RenderApiKeys(list, settings)
          /\ known' = settings
          /\ unsaved' = {} /\ during' = {}
          /\ unlisted' = (settings["api_key_id"] \notin list \cup {None})
      BY <1>4, <2>6 DEF Render, RenderSettings
    <3>2. /\ form' \in Forms
          /\ \A f \in FormFields \ {"api_key_id"} : form'[f] = settings[f]
          /\ form'["api_key_id"] \in Options(list, form'["exchange"])
          /\ settings["api_key_id"] \in Options(list, settings["exchange"])
               => form'["api_key_id"] = settings["api_key_id"]
          /\ settings["api_key_id"] \notin Options(list, settings["exchange"])
               => form'["api_key_id"] = None
      BY <2>1, <3>1, RenderedKeys
    <3>3. unlisted' \in BOOLEAN
      BY <3>1
    <3>4. TypeOK'
      BY <2>1, <2>2, <2>3, <3>1, <3>2, <3>3 DEF TypeOK
    <3>5. EditInv' /\ KeyInv'
      BY <2>3, <3>1, <3>2 DEF EditInv, KeyInv
    <3>6. FormInv'
      BY <3>1, <3>2 DEF FormInv, Keeps, Options
    <3> QED
      BY <2>4, <3>4, <3>5, <3>6
  <2> QED
    BY <2>5, <2>6
<1>5. ASSUME NEW g \in Gets, RefreshFails(g) PROVE IInv'
  <2>1. gets' \in [Gets -> GetStates]
    BY <1>5 DEF RefreshFails, TypeOK, GetStates
  <2> QED
    BY <1>5, <2>1 DEF RefreshFails, Unauthorized, server_vars, ghost, TypeOK, EditInv, KeyInv,
                      FormInv, Keeps, PutInv, ServerInv
<1> QED
  BY <1>1, <1>2, <1>3, <1>4, <1>5

LEMMA OthersStep ==
  ASSUME IInv,
         \/ \E s \in OtherSaves : OtherClient(s[1], s[2])
         \/ \E k \in Keys : CreateApiKey(k)
  PROVE  IInv'
<1> USE DEF IInv, page, ghost
<1>1. CASE \E s \in OtherSaves : OtherClient(s[1], s[2])
  <2>1. PICK u \in Users, settings \in Settings : OtherClient(u, settings)
    BY <1>1, DashboardAssumption
  <2>2. server' \in [Users -> Settings] /\ ServerInv'
    BY <2>1 DEF OtherClient, TypeOK, ServerInv
  <2> QED
    BY <2>1, <2>2 DEF OtherClient, TypeOK, EditInv, KeyInv, FormInv, Keeps, PutInv
<1>2. CASE \E k \in Keys : CreateApiKey(k)
  <2>1. PICK k \in Keys : CreateApiKey(k)
    BY <1>2
  <2>2. KeyOwner[k] \in Users
    BY DashboardAssumption
  <2>3. keys' \in [Users -> SUBSET Keys] /\ ServerInv'
    BY <2>1, <2>2 DEF CreateApiKey, TypeOK, ServerInv
  <2> QED
    BY <2>1, <2>3 DEF CreateApiKey, TypeOK, EditInv, KeyInv, FormInv, Keeps, PutInv
<1> QED
  BY <1>1, <1>2

LEMMA NextIInv == IInv /\ [Next]_vars => IInv'
<1> SUFFICES ASSUME IInv, [Next]_vars PROVE IInv'
  OBVIOUS
<1>1. CASE UNCHANGED vars
  BY <1>1 DEF vars, server_vars, page, ghost, IInv, TypeOK, EditInv, KeyInv, FormInv, Keeps,
              PutInv, ServerInv
<1> QED
  BY <1>1, UserStep, SaveStep, RefreshStep, OthersStep DEF Next

\* The inductive invariant: an edit is protected or was typed during a save, the key
\* selected is offered, and what was not typed is what the page last saw of the
\* server, but for a key that could not stay selected.
THEOREM Invariance == Spec => []IInv
<1> QED
  BY InitIInv, NextIInv, PTL DEF Spec

\* No refresh renders over an edit, however late it comes, that was not typed while
\* a save was under way, and a key only if its list lacks it (isEditingSettings,
\* renderApiKeys, saveSettings).
THEOREM EditsAreKept == Spec => EditsKept
<1>1. IInv /\ [Next]_vars =>
        [\A g \in Gets, f \in unsaved :
           (gets[g] # Idle /\ gets'[g] = Idle /\ form'[f] # form[f])
             => \/ f \in during
                \/ f = "api_key_id" /\ form'[f] = None /\ form[f] \notin gets[g].keys]_vars
  <2> SUFFICES ASSUME IInv, Next, NEW g \in Gets, NEW f \in unsaved,
                      gets[g] # Idle, gets'[g] = Idle, form'[f] # form[f], f \notin during
               PROVE  f = "api_key_id" /\ form'[f] = None /\ form[f] \notin gets[g].keys
    OBVIOUS
  <2>1. Render(g)
    BY DEF Next, Login, Logout, Focus, Type, SaveSettings, Store, Saved, SaveFails, Timer,
           ServeSettings, ServeApiKeys, Render, RefreshFails, OtherClient, CreateApiKey,
           page, IInv, TypeOK, Idle, Asked, GetStates
  <2>2. IsEditingSettings
    BY DEF IInv, EditInv, IsEditingSettings
  <2>3. form' = RenderApiKeys(gets[g].keys, form) /\ form \in Forms /\ f \in FormFields
    BY <2>1, <2>2 DEF Render, IInv, TypeOK
  <2>4. /\ f = "api_key_id" /\ form'[f] = None
        /\ form[f] \notin Options(gets[g].keys, form["exchange"])
    BY <2>3, RenderedKeys
  <2> QED
    BY <2>4 DEF IInv, KeyInv, Options
<1> QED
  BY <1>1, Invariance, PTL DEF Spec, EditsKept

\* A save of a page whose picture was up to date changes nothing but what was typed
\* at the page, puts what the form lacks to its default, and takes away a key that
\* could not stay selected and a strategy beside which a base price is stored
\* (saveSettings, renderApiKeys, update_bot_settings).
THEOREM OverwritesNeedStale == Spec => OverwritesOnlyIfStale
<1> DEFINE old == server[put.user]
           new == server'[put.user]
           Excused(f) ==
             \/ f \in put.typed
             \/ put.known # Shown(old)
             \/ f \in HiddenFields /\ new[f] = Default[f]
             \/ /\ f = "api_key_id" /\ new[f] = None
                /\ \/ put.unlisted
                   \/ "exchange" \in put.typed
                   \/ KeyExchange[old[f]] # old["exchange"]
             \/ /\ f = "strategy_type" /\ new[f] = "base_price_gap"
                /\ new["base_price"] # None
<1>1. IInv /\ [Next]_vars =>
        [(put.pc = "sent" /\ put'.pc = "stored") =>
           \A f \in Fields : new[f] # old[f] => Excused(f)]_vars
  <2> SUFFICES ASSUME IInv, Next, put.pc = "sent", put'.pc = "stored",
                      NEW f \in Fields, new[f] # old[f]
               PROVE  Excused(f)
    OBVIOUS
  <2> HIDE DEF old, new, Excused
  <2>1. Store
    <3>1. ASSUME NEW g \in Gets,
                 ServeSettings(g) \/ ServeApiKeys(g) \/ Render(g) \/ RefreshFails(g)
          PROVE  put' = put
      BY <3>1 DEF ServeSettings, ServeApiKeys, Render, RefreshFails
    <3>2. ASSUME NEW e \in Edits, Type(e[1], e[2]) PROVE put' = put
      BY <3>2 DEF Type
    <3>3. ASSUME NEW s \in OtherSaves, OtherClient(s[1], s[2]) PROVE put' = put
      BY <3>3 DEF OtherClient
    <3> QED
      BY <3>1, <3>2, <3>3 DEF Next, Login, Logout, Focus, SaveSettings, Saved, SaveFails, Idle,
                              Timer, CreateApiKey
  <2> USE DEF old, new, Excused
  <2>2. put.user \in Users /\ put.payload \in Forms
    BY DEF IInv, TypeOK, PutStates, Idle
  <2>3. new = WithStrategy(FromPayload(put.payload))
    BY <2>1, <2>2 DEF Store, IInv, TypeOK
  <2>4. /\ \A h \in FormFields \ {"strategy_type"} : new[h] = put.payload[h]
        /\ \/ new["strategy_type"] = put.payload["strategy_type"]
           \/ new["strategy_type"] = "base_price_gap" /\ put.payload["base_price"] # None
        /\ \A h \in HiddenFields : new[h] = Default[h]
    BY <2>2, <2>3, Stored
  <2> HIDE DEF new
  <2>5. CASE f \notin FormFields
    BY <2>4, <2>5 DEF Fields
  <2>6. CASE f \in FormFields /\ f \notin put.typed /\ put.known = Shown(old)
    <3>1. Keeps(put.payload, put.known, put.typed, put.unlisted)
      BY DEF IInv, PutInv
    <3>2. \A h \in FormFields : put.known[h] = old[h]
      BY <2>6 DEF Shown
    <3>3. CASE put.payload[f] = old[f]
      <4>1. f = "strategy_type" /\ put.payload["base_price"] # None /\ new[f] = "base_price_gap"
        BY <2>4, <2>6, <3>3
      <4>2. new["base_price"] = put.payload["base_price"]
        BY <2>4, DashboardAssumption
      <4> QED
        BY <4>1, <4>2
    <3>4. CASE put.payload[f] # old[f]
      <4>1. /\ f = "api_key_id" /\ put.payload[f] = None
            /\ \/ put.unlisted
               \/ "exchange" \in put.typed
               \/ KeyExchange[old[f]] # old["exchange"]
        BY <2>6, <3>1, <3>2, <3>4, DashboardAssumption DEF Keeps
      <4>2. new["api_key_id"] = put.payload["api_key_id"]
        BY <2>4, DashboardAssumption
      <4> QED
        BY <4>1, <4>2
    <3> QED
      BY <3>3, <3>4
  <2> QED
    BY <2>5, <2>6
<1> QED
  BY <1>1, Invariance, PTL DEF Spec, OverwritesOnlyIfStale
===============================================================================
