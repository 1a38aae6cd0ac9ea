------------------------------ MODULE PanelProofs ------------------------------
(***************************************************************************)
(* Proofs about the panel's administration: ApiTokens, for any sessions,   *)
(* names, passwords and number of tokens, DbImport, for any number of      *)
(* files and saves, and ClientLinks, for any inbounds, clients and tags;   *)
(* and about MCPanel, which has them beside the components that have       *)
(* modules of proofs of their own.                                         *)
(***************************************************************************)
EXTENDS MCPanel, ConfigSaveProofs, ClientQuotaProofs, RelayRoutesProofs, TLAPS

(***************************************************************************)
(* ApiTokens.                                                              *)
(***************************************************************************)

TokenRequest == [at : {"idle", "login", "change", "reload", "loaded"}, name : Names \cup {None},
            word : Words, plain : BOOLEAN, list : SUBSET Ids, late : BOOLEAN]

\* The session is between its change of the table and its reload, or in the reload.
Reloads(t) == op[t].at \in {"reload", "loaded"}

\* A reading that nobody's has passed is of the table as it is, or there is another
\* that it will pass or that will pass it.
ReadingInv(t) ==
  /\ op[t].list \subseteq 1 .. added
  /\ op[t].at = "loaded" /\ ~op[t].late =>
       op[t].list \ expired = Valid \/ \E o \in Tabs \ {t} : Reloads(o)

\* A login on a plain password has compared it with the one that is set.
LoginInv(t) == op[t].at = "login" /\ op[t].plain => crossed \/ op[t].word = user.word

\* A change has a name to set.
ChangeInv(t) == op[t].at = "change" => op[t].name \in Names

TokensInv ==
  /\ TokensTypeOK /\ added \in 0 .. MaxTokens /\ serving \in BOOLEAN
  /\ \A t \in Tabs : ReadingInv(t) /\ LoginInv(t) /\ ChangeInv(t)
  /\ AccountsHold
  /\ ownerless # {} => misnamed

-----------------------------------------------------------------------------
USE TokensAssumption

LEMMA RequestsAre == TokensTypeOK => op \in [Tabs -> TokenRequest] /\ NoRequest \in TokenRequest
BY DEF TokensTypeOK, TokenRequest, NoRequest, Ids

\* A step that leaves the table, the list and their readings alone.
LEMMA TableStays ==
  ASSUME TokensInv, NEW t \in Tabs, NEW r \in TokenRequest,
         op[t].at \notin {"reload", "loaded"}, r.at \notin {"reload", "loaded"},
         op' = [op EXCEPT ![t] = r], UNCHANGED <<serving, tablevars>>,
         r.at = "change" => r.name \in Names, r.list = {}
  PROVE  /\ op' \in [Tabs -> TokenRequest] /\ added' \in 0 .. MaxTokens /\ serving' \in BOOLEAN
         /\ \A o \in Tabs : ReadingInv(o)' /\ ChangeInv(o)'
         /\ TokensAreFollowed'
         /\ ownerless' # {} => misnamed'
<1>1. /\ op \in [Tabs -> TokenRequest] /\ op' \in [Tabs -> TokenRequest] /\ op'[t] = r
      /\ \A o \in Tabs : o # t => op'[o] = op[o]
  BY RequestsAre DEF TokensInv
<1>2. \A o \in Tabs : Reloads(o)' <=> Reloads(o)
  BY <1>1 DEF Reloads
<1>3. ASSUME NEW o \in Tabs PROVE ReadingInv(o)'
  BY <1>1, <1>2 DEF TokensInv, ReadingInv, tablevars, Valid
<1>4. TokensAreFollowed'
  BY <1>1, <1>2 DEF TokensInv, AccountsHold, TokensAreFollowed, tablevars, Valid, Reloads
<1>5. ASSUME NEW o \in Tabs PROVE ChangeInv(o)'
  BY <1>1 DEF TokensInv, ChangeInv
<1> QED
  BY <1>1, <1>3, <1>4, <1>5 DEF TokensInv, tablevars

\* A step that leaves the passwords and the logins alone, beyond ending some.
LEMMA WordsStay ==
  ASSUME TokensInv, UNCHANGED <<user, wanted, crossed>>,
         \A t \in Tabs : op'[t].at = "login" => op'[t] = op[t]
  PROVE  /\ \A t \in Tabs : LoginInv(t)'
         /\ PasswordIsTheLastSet'
BY DEF TokensInv, LoginInv, AccountsHold, PasswordIsTheLastSet

LEMMA LoginReadKeeps ==
  ASSUME TokensInv, NEW t \in Tabs, NEW w \in Words, LoginRead(t, w)
  PROVE  TokensInv'
<1> DEFINE r == [NoRequest EXCEPT !.at = "login", !.name = user.name, !.word = w,
                                  !.plain = user.plain]
<1>1. r \in TokenRequest /\ r.at = "login" /\ r.word = user.word /\ r.list = {}
  BY DEF LoginRead, TokensInv, TokensTypeOK, TokenRequest, NoRequest, Ids
<1>2. op' = [op EXCEPT ![t] = r] /\ op[t].at = "idle"
  BY DEF LoginRead, MayAsk
<1> HIDE DEF r
<1>3. /\ op \in [Tabs -> TokenRequest] /\ op'[t] = r
      /\ \A o \in Tabs : o # t => op'[o] = op[o]
  BY <1>1, <1>2, RequestsAre DEF TokensInv
<1>4. /\ op' \in [Tabs -> TokenRequest] /\ added' \in 0 .. MaxTokens /\ serving' \in BOOLEAN
      /\ \A o \in Tabs : ReadingInv(o)' /\ ChangeInv(o)'
      /\ TokensAreFollowed'
      /\ ownerless' # {} => misnamed'
  BY <1>1, <1>2, TableStays DEF LoginRead
<1>5. \A o \in Tabs : LoginInv(o)'
  BY <1>1, <1>3 DEF TokensInv, LoginInv, LoginRead
<1>6. TokensTypeOK'
  BY <1>4 DEF LoginRead, TokensInv, TokensTypeOK, TokenRequest, tablevars
<1> QED
  BY <1>4, <1>5, <1>6 DEF TokensInv, AccountsHold, PasswordIsTheLastSet, LoginRead

LEMMA LoginWriteKeeps == ASSUME TokensInv, NEW t \in Tabs, LoginWrite(t) PROVE TokensInv'
<1>1. /\ op \in [Tabs -> TokenRequest] /\ NoRequest \in TokenRequest
      /\ NoRequest.at = "idle" /\ NoRequest.list = {}
      /\ op' = [op EXCEPT ![t] = NoRequest] /\ op[t].at = "login"
  BY RequestsAre DEF TokensInv, LoginWrite, Leave, NoRequest
<1>2. op'[t] = NoRequest /\ \A o \in Tabs : o # t => op'[o] = op[o]
  BY <1>1
<1>3. /\ op' \in [Tabs -> TokenRequest] /\ added' \in 0 .. MaxTokens /\ serving' \in BOOLEAN
      /\ \A o \in Tabs : ReadingInv(o)' /\ ChangeInv(o)'
      /\ TokensAreFollowed'
      /\ ownerless' # {} => misnamed'
  BY <1>1, TableStays DEF LoginWrite
<1>4. user' \in [name : Names, word : Words, plain : BOOLEAN]
  BY <1>1 DEF LoginWrite, TokensInv, TokensTypeOK, TokenRequest
<1>5. crossed \/ user'.word = user.word
  BY DEF LoginWrite, Upgrades, TokensInv, TokensTypeOK, LoginInv
<1>6. \A o \in Tabs : LoginInv(o)'
  BY <1>1, <1>2, <1>5 DEF TokensInv, LoginInv, LoginWrite
<1>7. TokensTypeOK'
  BY <1>1, <1>3, <1>4 DEF LoginWrite, TokensInv, TokensTypeOK, TokenRequest, tablevars
<1> QED
  BY <1>3, <1>5, <1>6, <1>7 DEF TokensInv, AccountsHold, PasswordIsTheLastSet, LoginWrite

LEMMA LogoutKeeps == ASSUME TokensInv, NEW t \in Tabs, Logout(t) PROVE TokensInv'
BY DEF TokensInv, Logout, TokensTypeOK, ReadingInv, LoginInv, ChangeInv, Reloads,
       AccountsHold, TokensAreFollowed, PasswordIsTheLastSet, Valid, tablevars

LEMMA ChangeReadKeeps ==
  ASSUME TokensInv, NEW t \in Tabs, NEW old \in Words, NEW name \in Names, NEW word \in Words,
         ChangeRead(t, old, name, word)
  PROVE  TokensInv'
<1> DEFINE r == [NoRequest EXCEPT !.at = "change", !.name = name, !.word = word]
<1>1. r \in TokenRequest /\ r.at = "change" /\ r.name \in Names /\ r.list = {}
  BY DEF TokenRequest, NoRequest, Ids
<1>2. op' = [op EXCEPT ![t] = r] /\ op[t].at = "idle"
  BY DEF ChangeRead, MayAsk
<1> HIDE DEF r
<1>3. /\ op \in [Tabs -> TokenRequest] /\ op'[t] = r
      /\ \A o \in Tabs : o # t => op'[o] = op[o]
  BY <1>1, <1>2, RequestsAre DEF TokensInv
<1>4. /\ op' \in [Tabs -> TokenRequest] /\ added' \in 0 .. MaxTokens /\ serving' \in BOOLEAN
      /\ \A o \in Tabs : ReadingInv(o)' /\ ChangeInv(o)'
      /\ TokensAreFollowed'
      /\ ownerless' # {} => misnamed'
  BY <1>1, <1>2, TableStays DEF ChangeRead
<1>5. /\ \A o \in Tabs : LoginInv(o)'
      /\ PasswordIsTheLastSet'
  BY <1>1, <1>3, WordsStay DEF ChangeRead
<1>6. TokensTypeOK'
  BY <1>4 DEF ChangeRead, TokensInv, TokensTypeOK, TokenRequest, tablevars
<1> QED
  BY <1>4, <1>5, <1>6 DEF TokensInv, AccountsHold

LEMMA ChangeSaveKeeps == ASSUME TokensInv, NEW t \in Tabs, ChangeSave(t) PROVE TokensInv'
<1>1. /\ op \in [Tabs -> TokenRequest] /\ NoRequest \in TokenRequest
      /\ NoRequest.at = "idle" /\ NoRequest.list = {}
      /\ op' = [op EXCEPT ![t] = NoRequest] /\ op[t].at = "change"
  BY RequestsAre DEF TokensInv, ChangeSave, Leave, NoRequest
<1>2. op'[t] = NoRequest /\ \A o \in Tabs : o # t => op'[o] = op[o]
  BY <1>1
<1>3. /\ op' \in [Tabs -> TokenRequest] /\ added' \in 0 .. MaxTokens /\ serving' \in BOOLEAN
      /\ \A o \in Tabs : ReadingInv(o)' /\ ChangeInv(o)'
      /\ TokensAreFollowed'
      /\ ownerless' # {} => misnamed'
  BY <1>1, TableStays DEF ChangeSave
<1>4. ASSUME NEW o \in Tabs PROVE LoginInv(o)'
  BY <1>1, <1>2 DEF LoginInv, ChangeSave
<1>5. user' \in [name : Names, word : Words, plain : BOOLEAN] /\ wanted' \in Words
  BY <1>1 DEF TokensInv, ChangeInv, ChangeSave, TokenRequest
<1>6. TokensTypeOK'
  BY <1>3, <1>5 DEF TokensInv, TokensTypeOK, ChangeSave, TokenRequest, tablevars
<1> QED
  BY <1>3, <1>4, <1>6 DEF TokensInv, AccountsHold, PasswordIsTheLastSet, ChangeSave

-----------------------------------------------------------------------------
\* The tokens, their list in memory and its readings.

\* A request ends or goes on in its reload; no login and no change begins.
LEMMA RequestsEnd ==
  ASSUME TokensInv, op' \in [Tabs -> TokenRequest], UNCHANGED <<user, wanted, crossed>>,
         \A o \in Tabs : op'[o].at \in {"login", "change"} => op'[o] = op[o]
  PROVE  /\ \A o \in Tabs : LoginInv(o)' /\ ChangeInv(o)'
         /\ PasswordIsTheLastSet'
<1>1. \A o \in Tabs : LoginInv(o)'
  BY DEF TokensInv, LoginInv
<1>2. \A o \in Tabs : ChangeInv(o)'
  BY DEF TokensInv, ChangeInv
<1> QED
  BY <1>1, <1>2 DEF TokensInv, AccountsHold, PasswordIsTheLastSet

\* A request that has changed the table is to read it again.
LEMMA ChangesTable ==
  ASSUME TokensInv, NEW t \in Tabs, op[t].at = "idle", Goto(t, "reload"), serving' = serving,
         UNCHANGED <<user, wanted, crossed>>, misnamed => misnamed',
         added \in Nat, added' \in Nat, added <= added'
  PROVE  /\ op' \in [Tabs -> TokenRequest]
         /\ \A o \in Tabs : ReadingInv(o)' /\ LoginInv(o)' /\ ChangeInv(o)'
         /\ AccountsHold'
<1>1. op \in [Tabs -> TokenRequest]
  BY RequestsAre DEF TokensInv
<1>2. [op[t] EXCEPT !.at = "reload"] \in TokenRequest
  BY <1>1 DEF TokenRequest
<1>3. /\ op' \in [Tabs -> TokenRequest] /\ op'[t].at = "reload" /\ op'[t].list = op[t].list
      /\ \A o \in Tabs : o # t => op'[o] = op[o]
  BY <1>1, <1>2 DEF Goto, TokenRequest
<1>4. Reloads(t)'
  BY <1>3 DEF Reloads
<1>5. \A o \in Tabs : ReadingInv(o)'
  <2>1. \A o \in Tabs : op'[o].list \subseteq 1 .. added
    BY <1>3 DEF TokensInv, ReadingInv
  <2>2. 1 .. added \subseteq 1 .. added'
    OBVIOUS
  <2> QED
    BY <1>3, <1>4, <2>1, <2>2 DEF ReadingInv
<1>6. TokensAreFollowed'
  BY <1>4 DEF TokensAreFollowed, Reloads, TokensInv, AccountsHold
<1>7. (\A o \in Tabs : LoginInv(o)' /\ ChangeInv(o)') /\ PasswordIsTheLastSet'
  BY <1>3, RequestsEnd
<1> QED
  BY <1>3, <1>5, <1>6, <1>7 DEF AccountsHold

LEMMA AddTokenKeeps == ASSUME TokensInv, NEW t \in Tabs, AddToken(t) PROVE TokensInv'
<1>1. added \in Nat /\ added' = added + 1 /\ added' \in 0 .. MaxTokens /\ added <= added'
  BY DEF TokensInv, AddToken
<1>2. /\ op[t].at = "idle" /\ Goto(t, "reload") /\ serving' = serving
      /\ UNCHANGED <<user, wanted, crossed>> /\ (misnamed => misnamed')
  BY DEF AddToken, MayAsk
<1>3. /\ op' \in [Tabs -> TokenRequest]
      /\ \A o \in Tabs : ReadingInv(o)' /\ LoginInv(o)' /\ ChangeInv(o)'
      /\ AccountsHold'
  BY <1>1, <1>2, ChangesTable
<1>4. TokensTypeOK'
  BY <1>1, <1>3 DEF TokensInv, TokensTypeOK, AddToken, TokenRequest
<1>5. ownerless' # {} => misnamed'
  BY DEF TokensInv, AddToken, Owned
<1> QED
  BY <1>1, <1>3, <1>4, <1>5 DEF TokensInv, AddToken

LEMMA DeleteTokenKeeps ==
  ASSUME TokensInv, NEW t \in Tabs, NEW i \in Ids, DeleteToken(t, i)
  PROVE  TokensInv'
<1>1. /\ op' \in [Tabs -> TokenRequest]
      /\ \A o \in Tabs : ReadingInv(o)' /\ LoginInv(o)' /\ ChangeInv(o)'
      /\ AccountsHold'
  BY ChangesTable DEF DeleteToken, MayAsk, AfterDelete, TokensInv
<1>2. TokensTypeOK'
  BY <1>1 DEF TokensInv, TokensTypeOK, DeleteToken, TokenRequest
<1> QED
  BY <1>1, <1>2 DEF TokensInv, DeleteToken

LEMMA ReloadReadKeeps == ASSUME TokensInv, NEW t \in Tabs, ReloadRead(t) PROVE TokensInv'
<1>1. op \in [Tabs -> TokenRequest] /\ Valid \in SUBSET Ids /\ Valid \subseteq 1 .. added
  BY RequestsAre DEF TokensInv, TokensTypeOK, Valid, Ids
<1>2. [op[t] EXCEPT !.at = "loaded", !.list = Valid] \in TokenRequest
  BY <1>1 DEF TokenRequest
<1>3. /\ op' \in [Tabs -> TokenRequest] /\ op'[t].at = "loaded" /\ op'[t].list = Valid
      /\ op[t].at = "reload" /\ \A o \in Tabs : o # t => op'[o] = op[o]
  BY <1>1, <1>2 DEF ReloadRead, TokenRequest
<1>4. \A o \in Tabs : Reloads(o)' <=> Reloads(o)
  BY <1>3 DEF Reloads
<1>5. Valid' = Valid /\ Valid \ expired = Valid /\ expired' = expired /\ added' = added
  BY DEF Valid, ReloadRead, tablevars
<1>6. \A o \in Tabs : ReadingInv(o)'
  BY <1>1, <1>3, <1>4, <1>5 DEF TokensInv, ReadingInv
<1>7. TokensAreFollowed'
  BY <1>4, <1>5 DEF TokensInv, AccountsHold, TokensAreFollowed, Reloads, ReloadRead, tablevars
<1>8. (\A o \in Tabs : LoginInv(o)' /\ ChangeInv(o)') /\ PasswordIsTheLastSet'
  BY <1>3, RequestsEnd DEF ReloadRead
<1>9. TokensTypeOK'
  BY <1>3 DEF TokensInv, TokensTypeOK, ReloadRead, TokenRequest, tablevars
<1> QED
  BY <1>6, <1>7, <1>8, <1>9 DEF TokensInv, AccountsHold, ReloadRead, tablevars

\* What is left when the request of t is over.
LEMMA PassedIs ==
  ASSUME TokensInv, NEW t \in Tabs, op' = Passed(t)
  PROVE  /\ op' \in [Tabs -> TokenRequest] /\ op'[t].at = "idle"
         /\ \A o \in Tabs : o # t => Reloads(o)' = Reloads(o)
         /\ \A o \in Tabs : op'[o].at = "loaded" => op'[o].late
         /\ \A o \in Tabs : op'[o].list \subseteq 1 .. added
         /\ \A o \in Tabs : op'[o].at \in {"login", "change"} => op'[o] = op[o]
<1>1. /\ op \in [Tabs -> TokenRequest] /\ NoRequest \in TokenRequest
      /\ NoRequest.at = "idle" /\ NoRequest.list = {}
      /\ \A o \in Tabs : op[o].list \subseteq 1 .. added
  BY RequestsAre DEF TokensInv, NoRequest, ReadingInv
<1>2. \A o \in Tabs : /\ [op[o] EXCEPT !.late = TRUE] \in TokenRequest
                      /\ [op[o] EXCEPT !.late = TRUE].list = op[o].list
                      /\ [op[o] EXCEPT !.late = TRUE].at = op[o].at
                      /\ [op[o] EXCEPT !.late = TRUE].late
  BY <1>1 DEF TokenRequest
<1> QED
  BY <1>1, <1>2 DEF Passed, Reloads

LEMMA ReloadPanicsKeeps == ASSUME TokensInv, NEW t \in Tabs, ReloadPanics(t) PROVE TokensInv'
<1>1. /\ op' \in [Tabs -> TokenRequest]
      /\ \A o \in Tabs : op'[o].at = "loaded" => op'[o].late
      /\ \A o \in Tabs : op'[o].list \subseteq 1 .. added
      /\ \A o \in Tabs : op'[o].at \in {"login", "change"} => op'[o] = op[o]
  BY PassedIs DEF ReloadPanics
<1>2. \A o \in Tabs : ReadingInv(o)'
  BY <1>1 DEF ReadingInv, ReloadPanics
<1>3. TokensAreFollowed'
  BY DEF TokensInv, AccountsHold, TokensAreFollowed, ReloadPanics
<1>4. (\A o \in Tabs : LoginInv(o)' /\ ChangeInv(o)') /\ PasswordIsTheLastSet'
  BY <1>1, RequestsEnd DEF ReloadPanics
<1>5. TokensTypeOK'
  BY <1>1 DEF TokensInv, TokensTypeOK, ReloadPanics, TokenRequest
<1> QED
  BY <1>2, <1>3, <1>4, <1>5 DEF TokensInv, AccountsHold, ReloadPanics

LEMMA ReloadSwapKeeps == ASSUME TokensInv, NEW t \in Tabs, ReloadSwap(t) PROVE TokensInv'
<1>1. /\ op' \in [Tabs -> TokenRequest]
      /\ \A o \in Tabs : o # t => Reloads(o)' = Reloads(o)
      /\ \A o \in Tabs : op'[o].at = "loaded" => op'[o].late
      /\ \A o \in Tabs : op'[o].list \subseteq 1 .. added
      /\ \A o \in Tabs : op'[o].at \in {"login", "change"} => op'[o] = op[o]
  BY PassedIs DEF ReloadSwap
<1>2. \A o \in Tabs : ReadingInv(o)'
  BY <1>1 DEF ReadingInv, ReloadSwap
<1>3. overtaken' \/ (\E o \in Tabs : Reloads(o)') \/ cache' \ expired' = Valid'
  BY <1>1 DEF TokensInv, ReadingInv, ReloadSwap, Valid
<1>4. TokensAreFollowed'
  BY <1>3 DEF TokensInv, AccountsHold, TokensAreFollowed, ReloadSwap, Reloads
<1>5. (\A o \in Tabs : LoginInv(o)' /\ ChangeInv(o)') /\ PasswordIsTheLastSet'
  BY <1>1, RequestsEnd DEF ReloadSwap
<1>6. TokensTypeOK'
  <2>1. op[t].list \subseteq 1 .. added
    BY DEF TokensInv, ReadingInv
  <2> QED
    BY <1>1, <2>1 DEF TokensInv, TokensTypeOK, ReloadSwap, TokenRequest
<1> QED
  BY <1>2, <1>4, <1>5, <1>6 DEF TokensInv, AccountsHold, ReloadSwap

LEMMA ExpireTokenKeeps == ASSUME TokensInv, NEW i \in Ids, ExpireToken(i) PROVE TokensInv'
<1>1. op' = op /\ expired' = expired \cup {i} /\ Valid' = Valid \ {i}
  BY DEF ExpireToken, Valid
<1>2. ASSUME NEW o \in Tabs PROVE ReadingInv(o)' /\ LoginInv(o)' /\ ChangeInv(o)'
  BY <1>1 DEF TokensInv, ReadingInv, LoginInv, ChangeInv, Reloads, ExpireToken
<1>3. TokensTypeOK'
  BY <1>1 DEF TokensInv, TokensTypeOK, ExpireToken
<1>4. AccountsHold'
  BY <1>1 DEF TokensInv, AccountsHold, TokensAreFollowed, PasswordIsTheLastSet, ExpireToken
<1> QED
  BY <1>2, <1>3, <1>4 DEF TokensInv, ExpireToken

LEMMA TokenRestartKeeps == ASSUME TokensInv, Restart PROVE TokensInv'
<1>1. /\ op' = [t \in Tabs |-> NoRequest] /\ NoRequest \in TokenRequest
      /\ NoRequest.at = "idle" /\ NoRequest.list = {}
  BY RequestsAre DEF TokensInv, Restart, NoRequest
<1>2. ASSUME NEW o \in Tabs PROVE ReadingInv(o)' /\ LoginInv(o)' /\ ChangeInv(o)'
  BY <1>1 DEF ReadingInv, LoginInv, ChangeInv
<1>3. TokensTypeOK'
  BY <1>1 DEF TokensInv, TokensTypeOK, Restart, TokenRequest, Valid
<1>4. ~Loads => misnamed
  BY DEF TokensInv, Loads
<1>5. Valid' = Valid /\ Valid \ expired = Valid
  BY DEF Restart, Valid
<1>6. TokensAreFollowed'
  BY <1>4, <1>5 DEF TokensAreFollowed, Restart
<1> QED
  BY <1>2, <1>3, <1>6
  DEF TokensInv, AccountsHold, PasswordIsTheLastSet, Restart, Loads

-----------------------------------------------------------------------------
LEMMA TokensInvHolds == TokensSpec => []TokensInv
<1>1. TokensInit => TokensInv
  BY DEF TokensInit, TokensInv, TokensTypeOK, ReadingInv, LoginInv, ChangeInv, AccountsHold,
         TokensAreFollowed, PasswordIsTheLastSet, Valid, NoRequest, Ids
<1>2. TokensInv /\ [TokensNext]_tokenvars => TokensInv'
  <2> SUFFICES ASSUME TokensInv, [TokensNext]_tokenvars PROVE TokensInv'
    OBVIOUS
  <2>1. CASE UNCHANGED tokenvars
    BY <2>1 DEF tokenvars, TokensInv, TokensTypeOK, ReadingInv, LoginInv, ChangeInv, Reloads,
                AccountsHold, TokensAreFollowed, PasswordIsTheLastSet, Valid
  <2>2. ASSUME NEW t \in Tabs,
               \/ \E w \in Words : LoginRead(t, w)
               \/ LoginWrite(t) \/ Logout(t)
               \/ \E old, word \in Words, name \in Names : ChangeRead(t, old, name, word)
               \/ ChangeSave(t)
        PROVE  TokensInv'
    BY <2>2, LoginReadKeeps, LoginWriteKeeps, LogoutKeeps, ChangeReadKeeps, ChangeSaveKeeps
  <2>3. ASSUME NEW t \in Tabs,
               \/ AddToken(t) \/ (\E i \in Ids : DeleteToken(t, i))
               \/ ReloadRead(t) \/ ReloadPanics(t) \/ ReloadSwap(t)
        PROVE  TokensInv'
    BY <2>3, AddTokenKeeps, DeleteTokenKeeps, ReloadReadKeeps, ReloadPanicsKeeps,
       ReloadSwapKeeps
  <2>4. CASE (\E i \in Ids : ExpireToken(i)) \/ Restart
    BY <2>4, ExpireTokenKeeps, TokenRestartKeeps
  <2> QED
    BY <2>1, <2>2, <2>3, <2>4 DEF TokensNext
<1> QED
  BY <1>1, <1>2, PTL DEF TokensSpec

(* Type correctness of the administrator, the sessions and the tokens.     *)
THEOREM TokensTypeCorrect == TokensSpec => []TokensTypeOK
<1>1. TokensInv => TokensTypeOK
  BY DEF TokensInv
<1> QED
  BY <1>1, TokensInvHolds, PTL

(* However the requests of any sessions meet, the API accepts the tokens   *)
(* of the table and the password is the one last set, outside of what      *)
(* overtaken, misnamed and crossed record (LoadTokens, ReloadTokens,       *)
(* CheckUser, ChangePass).                                                 *)
THEOREM AccountsCorrect == TokensSpec => []AccountsHold
<1>1. TokensInv => AccountsHold
  BY DEF TokensInv
<1> QED
  BY <1>1, TokensInvHolds, PTL

HIDE TokensAssumption

(***************************************************************************)
(* DbImport.                                                               *)
(***************************************************************************)

Stages == {"idle", "created", "closed", "copied", "cleared", "moved", "placed", "opened"}
Replacing == {"moved", "placed", "opened"}
Scan == [at : {"none", "reading", "done"}, of : Nat, told : [Tables -> Nat], file : Nat,
         rows : [Tables -> Nat], crossed : BOOLEAN]
Contained == [kind : FileKinds, rows : [Tables -> 0 .. MaxRows]]

FileTypes ==
  /\ DbTypeOK /\ alive \in BOOLEAN /\ scan \in Scan
  /\ forked \in BOOLEAN /\ unmoved \in BOOLEAN /\ remade \in BOOLEAN /\ cutOff \in BOOLEAN
  /\ ~alive => import = "idle"

\* Files have one path each and are as old as their number; the temporary one is an
\* upload and never has the user's rows.
FilesApart ==
  /\ \A p \in Paths : disk[p] \in 0 .. created
  /\ \A p, q \in Paths : disk[p] = disk[q] /\ disk[p] # 0 => p = q
  /\ mine \in 1 .. created /\ Usable(mine) /\ disk["temp"] # mine
  /\ import \in {"created", "closed", "copied", "cleared", "moved"} => disk["temp"] # 0
  /\ import = "opened" => handle = disk["db"]

\* The path at which the user's rows are, by where the import is.
Place == IF import \in Replacing THEN "backup" ELSE "db"

MineIsThere ==
  /\ alive => unmoved \/ remade \/ disk[Place] = mine
  /\ ~cutOff /\ ~unmoved => Usable(disk[Place]) /\ (remade \/ disk[Place] = mine)
  /\ unmoved \/ remade \/ disk["db"] = mine \/ disk["backup"] = mine

\* A scan that nothing has crossed reads the user's database, at its path.
ScanInv ==
  /\ scan.at = "reading" /\ ~scan.crossed =>
       /\ import \in {"idle", "created"}
       /\ handle = scan.of /\ disk["db"] = scan.of /\ scan.of \in 1 .. created
       /\ \A t \in Tables : scan.told[t] <= data[scan.of].rows[t]
  /\ BackupHasTheSaves

DbInv == FileTypes /\ FilesApart /\ MineIsThere /\ ScanInv

-----------------------------------------------------------------------------
USE DbAssumption DEF Paths, Inodes, Replacing

LEMMA Opens ==
  ASSUME DbInv
  PROVE  /\ created \in Nat /\ 1 <= created /\ created <= Files
         /\ \A f \in 1 .. created : f \in Inodes
         /\ \A f \in Inodes : data[f].rows \in [Tables -> Nat]
<1>1. \A f \in Inodes : data[f].rows \in [Tables -> 0 .. MaxRows]
  BY DEF DbInv, FileTypes, DbTypeOK
<1>2. 0 .. MaxRows \subseteq Nat
  OBVIOUS
<1> QED
  BY <1>1, <1>2 DEF DbInv, FileTypes, DbTypeOK

\* The files after a removal and after a renaming.
LEMMA WithoutIs ==
  ASSUME NEW ps \in SUBSET Paths
  PROVE  \A p \in Paths : Without(ps)[p] = IF p \in ps THEN 0 ELSE disk[p]
BY DEF Without

LEMMA WithoutTyped ==
  ASSUME DbInv, NEW ps \in SUBSET Paths, disk' = Without(ps), created' = created
  PROVE  /\ disk' \in [Paths -> Inodes \cup {0}]
         /\ \A p \in Paths : disk'[p] \in 0 .. created'
         /\ \A p, q \in Paths : disk'[p] = disk'[q] /\ disk'[p] # 0 => p = q
BY DEF Without, DbInv, FileTypes, FilesApart, DbTypeOK

LEMMA MovedIs ==
  ASSUME DbInv, NEW from \in Paths, NEW to \in Paths, from # to
  PROVE  /\ Moved(from, to) \in [Paths -> Inodes \cup {0}]
         /\ \A p \in Paths : Moved(from, to)[p] =
              IF p = from THEN 0 ELSE IF p = to THEN disk[from] ELSE disk[p]
BY DEF Moved, DbInv, FileTypes, DbTypeOK

\* Each of the three paths by itself.
LEMMA PathByPath ==
  ASSUME NEW d, NEW n
  PROVE  /\ (\A p \in Paths : d[p] \in 0 .. n) <=>
              d["db"] \in 0 .. n /\ d["temp"] \in 0 .. n /\ d["backup"] \in 0 .. n
         /\ (\A p, q \in Paths : d[p] = d[q] /\ d[p] # 0 => p = q) <=>
              /\ d["db"] = d["temp"] => d["db"] = 0
              /\ d["db"] = d["backup"] => d["db"] = 0
              /\ d["temp"] = d["backup"] => d["temp"] = 0
OBVIOUS

\* A save to one table of a file.
LEMMA OneMore ==
  ASSUME NEW D \in [Inodes -> Contained], NEW f \in Inodes, NEW t \in Tables,
         D[f].rows[t] < MaxRows
  PROVE  /\ [D EXCEPT ![f].rows[t] = @ + 1] \in [Inodes -> Contained]
         /\ \A g \in Inodes :
              /\ [D EXCEPT ![f].rows[t] = @ + 1][g].kind = D[g].kind
              /\ \A u \in Tables : D[g].rows[u] <= [D EXCEPT ![f].rows[t] = @ + 1][g].rows[u]
<1> DEFINE n == [D[f].rows EXCEPT ![t] = D[f].rows[t] + 1]
           r == [D[f] EXCEPT !.rows = n]
<1>1. D[f] \in Contained /\ D[f].rows \in [Tables -> 0 .. MaxRows]
  BY DEF Contained
<1>2. n \in [Tables -> 0 .. MaxRows] /\ \A u \in Tables : D[f].rows[u] <= n[u]
  <2>1. D[f].rows[t] \in 0 .. MaxRows /\ D[f].rows[t] + 1 \in 0 .. MaxRows
    BY <1>1
  <2>2. \A u \in Tables : n[u] = IF u = t THEN D[f].rows[t] + 1 ELSE D[f].rows[u]
    BY <1>1
  <2> QED
    BY <1>1, <2>1, <2>2
<1>3. [D EXCEPT ![f].rows[t] = @ + 1] = [D EXCEPT ![f] = r]
  OBVIOUS
<1> HIDE DEF n
<1>4. r \in Contained /\ r.kind = D[f].kind /\ r.rows = n
  BY <1>1, <1>2 DEF Contained
<1> HIDE DEF r
<1>5. \A g \in Inodes : [D EXCEPT ![f] = r][g] = IF g = f THEN r ELSE D[g]
  OBVIOUS
<1>6. \A g \in Inodes, u \in Tables : D[g].rows[u] \in Nat /\ D[g].rows[u] <= D[g].rows[u]
  BY DEF Contained
<1>7. [D EXCEPT ![f] = r] \in [Inodes -> Contained]
  BY <1>4
<1>8. ASSUME NEW g \in Inodes
      PROVE  /\ [D EXCEPT ![f] = r][g].kind = D[g].kind
             /\ \A u \in Tables : D[g].rows[u] <= [D EXCEPT ![f] = r][g].rows[u]
  <2>1. CASE g = f
    BY <1>2, <1>4, <1>5, <2>1
  <2>2. CASE g # f
    BY <1>5, <1>6, <2>2
  <2> QED
    BY <2>1, <2>2
<1> QED
  BY ONLY <1>3, <1>7, <1>8

LEMMA SaveKeeps == ASSUME DbInv, Save PROVE DbInv'
<1>1. PICK f \in Connected, t \in Tables : /\ data[f].rows[t] < MaxRows
                                          /\ data' = [data EXCEPT ![f].rows[t] = @ + 1]
                                          /\ forked' = (forked \/ f # mine)
  BY DEF Save
<1>2. f \in Inodes
  BY DEF Connected, DbInv, FileTypes, DbTypeOK
<1>a. data \in [Inodes -> Contained]
  BY DEF DbInv, FileTypes, DbTypeOK, Contained
<1>b. /\ data' \in [Inodes -> Contained]
      /\ \A g \in Inodes : /\ data'[g].kind = data[g].kind
                            /\ \A u \in Tables : data[g].rows[u] <= data'[g].rows[u]
  <2> DEFINE more == [data EXCEPT ![f].rows[t] = @ + 1]
  <2>1. /\ more \in [Inodes -> Contained]
        /\ \A g \in Inodes : /\ more[g].kind = data[g].kind
                              /\ \A u \in Tables : data[g].rows[u] <= more[g].rows[u]
    BY ONLY <1>1, <1>2, <1>a, OneMore
  <2>2. data' = more
    BY <1>1
  <2> HIDE DEF more
  <2> QED
    BY ONLY <2>1, <2>2
<1>3. data' \in [Inodes -> Contained]
  BY <1>b
<1>4. \A g \in Inodes : /\ data'[g].kind = data[g].kind
                        /\ \A u \in Tables : data[g].rows[u] <= data'[g].rows[u]
  BY <1>b
<1>5. \A g \in Inodes \cup {0} : Usable(g)' <=> Usable(g)
  BY <1>4 DEF Usable
<1>6. FileTypes'
  BY <1>1, <1>3 DEF Save, DbInv, FileTypes, DbTypeOK, Contained
<1>7. FilesApart'
  BY <1>5, Opens DEF Save, DbInv, FilesApart
<1>8. MineIsThere'
  <2>1. disk[Place] \in Inodes \cup {0} /\ Place' = Place
    BY DEF Place, Save, DbInv, FileTypes, DbTypeOK
  <2> QED
    BY <1>5, <2>1 DEF Save, DbInv, MineIsThere
<1>9. ScanInv'
  <2>1. scan.told \in [Tables -> Nat] /\ scan.of \in Nat
    BY DEF DbInv, FileTypes, Scan
  <2>2. ASSUME scan.of \in 1 .. created, NEW u \in Tables, scan.told[u] <= data[scan.of].rows[u]
        PROVE  scan.told[u] <= data'[scan.of].rows[u]
    <3>1. scan.of \in Inodes
      BY <2>2, Opens
    <3>2. scan.told[u] \in Nat /\ data[scan.of].rows[u] \in Nat /\ data'[scan.of].rows[u] \in Nat
      <4>1. data'[scan.of].rows \in [Tables -> 0 .. MaxRows]
        BY <1>3, <3>1 DEF Contained
      <4>2. data[scan.of].rows \in [Tables -> 0 .. MaxRows]
        BY <1>a, <3>1 DEF Contained
      <4> QED
        BY <2>1, <4>1, <4>2
    <3> QED
      BY <1>4, <2>2, <3>1, <3>2
  <2> QED
    BY <2>2 DEF Save, DbInv, ScanInv, BackupHasTheSaves
<1> QED
  BY <1>6, <1>7, <1>8, <1>9 DEF DbInv

LEMMA GetDbKeeps == ASSUME DbInv, GetDb PROVE DbInv'
<1>1. mine \in 1 .. created /\ mine \in Nat /\ mine \in Inodes /\ data[mine].rows \in [Tables -> Nat]
  BY Opens DEF DbInv, FilesApart
<1>2. /\ scan' \in Scan /\ scan'.at = "reading" /\ scan'.of = mine /\ scan'.told = data[mine].rows
      /\ scan'.crossed = (import # "idle" \/ handle # disk["db"] \/ unmoved \/ remade)
  BY <1>1 DEF GetDb, NoScan, NothingSaved, Scan
<1>3. ~scan'.crossed => import = "idle" /\ handle = mine /\ disk["db"] = mine
  BY <1>2 DEF GetDb, DbInv, MineIsThere, Place
<1>4. FileTypes'
  BY <1>2 DEF GetDb, DbInv, FileTypes, DbTypeOK, marks, Scan
<1>5. FilesApart' /\ MineIsThere'
  BY DEF GetDb, DbInv, FilesApart, MineIsThere, Place, Usable, marks
<1>6. ScanInv'
  BY <1>1, <1>2, <1>3 DEF GetDb, ScanInv, BackupHasTheSaves, marks
<1> QED
  BY <1>4, <1>5, <1>6 DEF DbInv

LEMMA GetDbEndsKeeps == ASSUME DbInv, GetDbEnds PROVE DbInv'
<1>1. NoScan \in Scan /\ NoScan.at = "none"
  BY DEF NoScan, NothingSaved, Scan
<1>2. FilesApart' /\ MineIsThere'
  BY DEF GetDbEnds, DbInv, FilesApart, MineIsThere, Place, Usable, marks
<1>3. CASE GetDbFails
  BY <1>1, <1>2, <1>3
  DEF GetDbFails, GetDbEnds, DbInv, FileTypes, DbTypeOK, ScanInv, BackupHasTheSaves, marks
<1>4. CASE GetDbReads
  <2> DEFINE copied(f) == [t \in Tables |-> IF t \in Listed THEN data[f].rows[t] ELSE 0]
  <2>1. PICK f \in Connected : scan' = [scan EXCEPT !.at = "done", !.file = f, !.rows = copied(f)]
    BY <1>4 DEF GetDbReads
  <2>2. f \in Inodes /\ f \in Nat /\ copied(f) \in [Tables -> Nat]
        /\ \A t \in Listed : copied(f)[t] = data[f].rows[t]
    BY Opens DEF Connected, DbInv, FileTypes, DbTypeOK, Listed
  <2> HIDE DEF copied
  <2>3. /\ scan' \in Scan /\ scan'.at = "done" /\ scan'.file = f /\ scan'.rows = copied(f)
        /\ scan'.of = scan.of /\ scan'.told = scan.told /\ scan'.crossed = scan.crossed
    BY <2>1, <2>2 DEF DbInv, FileTypes, Scan
  <2>4. ~scan.crossed => f = scan.of
    BY DEF GetDbEnds, Connected, DbInv, ScanInv
  <2>5. ScanInv'
    <3>1. ~scan.crossed => \A t \in Listed : scan.told[t] <= data[f].rows[t]
      BY <2>4 DEF GetDbEnds, DbInv, ScanInv, Listed
    <3>2. \A t \in Listed : scan.told[t] \in Nat /\ data[f].rows[t] \in Nat
      BY <2>2, Opens DEF DbInv, FileTypes, Scan, Listed
    <3> QED
      BY <2>2, <2>3, <2>4, <3>1, <3>2 DEF ScanInv, BackupHasTheSaves
  <2> QED
    BY <1>2, <2>3, <2>5 DEF GetDbEnds, DbInv, FileTypes, DbTypeOK, marks, Scan
<1> QED
  BY <1>3, <1>4 DEF GetDbEnds

LEMMA CreateTempKeeps == ASSUME DbInv, CreateTemp PROVE DbInv'
<1>1. created \in Nat /\ created + 1 \in Inodes /\ created' = created + 1
  BY Opens DEF CreateTemp
<1>2. /\ disk' \in [Paths -> Inodes \cup {0}] /\ disk'["temp"] = created + 1
      /\ disk'["db"] = disk["db"] /\ disk'["backup"] = disk["backup"]
  BY <1>1 DEF CreateTemp, DbInv, FileTypes, DbTypeOK
<1>3. /\ data' \in [Inodes -> [kind : FileKinds, rows : [Tables -> 0 .. MaxRows]]]
      /\ \A f \in 1 .. created : data'[f] = data[f]
  BY <1>1, Opens DEF CreateTemp, DbInv, FileTypes, DbTypeOK, NoData, Data, NothingSaved, FileKinds
<1>4. \A f \in 0 .. created : Usable(f)' <=> Usable(f)
  BY <1>1, <1>3 DEF Usable
<1>5. FileTypes'
  BY <1>1, <1>2, <1>3 DEF CreateTemp, At, Proceeds, DbInv, FileTypes, DbTypeOK, marks
<1>6. FilesApart'
  <2>1. \A p \in Paths : disk'[p] \in 0 .. created'
    BY <1>1, <1>2 DEF DbInv, FilesApart
  <2>2. \A p, q \in Paths : disk'[p] = disk'[q] /\ disk'[p] # 0 => p = q
    BY <1>1, <1>2 DEF DbInv, FilesApart
  <2>3. mine' \in 1 .. created' /\ Usable(mine)' /\ disk'["temp"] # mine'
    BY <1>1, <1>2, <1>4 DEF CreateTemp, marks, DbInv, FilesApart
  <2> QED
    BY <1>1, <1>2, <2>1, <2>2, <2>3 DEF CreateTemp, Proceeds, FilesApart
<1>7. MineIsThere'
  BY <1>1, <1>2, <1>4 DEF CreateTemp, At, Proceeds, marks, DbInv, FilesApart, MineIsThere, Place
<1>8. ScanInv'
  BY <1>1, <1>2, <1>3 DEF CreateTemp, Proceeds, DbInv, ScanInv, BackupHasTheSaves
<1> QED
  BY <1>5, <1>6, <1>7, <1>8 DEF DbInv

\* Steps that change no file.
LEMMA SameData ==
  ASSUME UNCHANGED data
  PROVE  \A f : Usable(f)' <=> Usable(f)
BY DEF Usable

\* An import that is under way has crossed the scan, beyond its first step.
LEMMA Crossed ==
  ASSUME DbInv, UNCHANGED scan, import \notin {"idle", "created"}
  PROVE  ScanInv'
BY DEF DbInv, ScanInv, BackupHasTheSaves

LEMMA CrossingIs ==
  ASSUME DbInv, Crossing
  PROVE  scan' \in Scan /\ ScanInv' /\ scan'.at = scan.at
BY DEF Crossing, DbInv, FileTypes, Scan, ScanInv, BackupHasTheSaves

LEMMA CloseOldKeeps == ASSUME DbInv, CloseOld PROVE DbInv'
<1>1. FilesApart' /\ MineIsThere'
  BY SameData DEF CloseOld, At, Proceeds, DbInv, FilesApart, MineIsThere, Place, marks
<1>2. scan' \in Scan /\ ScanInv' /\ scan'.at = scan.at
  BY CrossingIs DEF CloseOld
<1>3. 0 \in 0 .. created
  BY Opens
<1>4. FileTypes'
  BY <1>2, <1>3 DEF CloseOld, At, Proceeds, DbInv, FileTypes, DbTypeOK, marks
<1> QED
  BY <1>1, <1>2, <1>4 DEF DbInv

LEMMA CopyKeeps == ASSUME DbInv, Copy PROVE DbInv'
<1> DEFINE t == disk["temp"]
<1>1. PICK k \in {"good", "bad"} : data' = [data EXCEPT ![t] = Data(k, NothingSaved)]
  BY DEF Copy
<1>2. t \in Inodes
  BY DEF Copy, At, DbInv, FilesApart, FileTypes, DbTypeOK
<1>3. /\ data' \in [Inodes -> [kind : FileKinds, rows : [Tables -> 0 .. MaxRows]]]
      /\ \A f \in Inodes : f # t => data'[f] = data[f]
  BY <1>1, <1>2 DEF DbInv, FileTypes, DbTypeOK, Data, NothingSaved, FileKinds
<1>4. \A f \in Inodes \cup {0} : f # t => (Usable(f)' <=> Usable(f))
  BY <1>3 DEF Usable
<1>5. mine # t /\ disk["db"] # t
  BY <1>2 DEF DbInv, FilesApart
<1>6. mine \in Inodes /\ disk["db"] \in Inodes \cup {0}
  BY Opens DEF DbInv, FilesApart, FileTypes, DbTypeOK
<1>7. FilesApart' /\ MineIsThere'
  BY <1>4, <1>5, <1>6
  DEF Copy, At, Proceeds, DbInv, FilesApart, MineIsThere, Place, marks
<1>8. ScanInv'
  BY Crossed DEF Copy, At
<1> QED
  BY <1>3, <1>7, <1>8 DEF Copy, At, Proceeds, DbInv, FileTypes, DbTypeOK, marks

LEMMA RemoveFallbackKeeps == ASSUME DbInv, RemoveFallback PROVE DbInv'
<1>1. /\ disk' = Without({"backup"}) /\ created' = created /\ data' = data /\ import' = "cleared"
      /\ disk'["db"] = disk["db"] /\ disk'["temp"] = disk["temp"] /\ disk'["backup"] = 0
  BY WithoutIs DEF RemoveFallback, Proceeds
<1>2. FilesApart'
  BY <1>1, WithoutTyped, SameData DEF RemoveFallback, At, DbInv, FilesApart, marks
<1>3. MineIsThere'
  BY <1>1, SameData DEF RemoveFallback, At, DbInv, MineIsThere, Place, marks
<1>4. ScanInv'
  BY Crossed DEF RemoveFallback, At
<1> QED
  BY <1>1, <1>2, <1>3, <1>4, WithoutTyped
  DEF RemoveFallback, At, DbInv, FileTypes, DbTypeOK, marks

LEMMA MoveAwayKeeps == ASSUME DbInv, MoveAway PROVE DbInv'
<1>1. /\ disk' = Moved("db", "backup") /\ created' = created /\ data' = data /\ import' = "moved"
      /\ disk'["backup"] = disk["db"] /\ disk'["db"] = 0 /\ disk'["temp"] = disk["temp"]
      /\ disk' \in [Paths -> Inodes \cup {0}]
  BY MovedIs DEF MoveAway, Proceeds
<1>2. FilesApart'
  <2>1. \A p \in Paths : disk'[p] \in 0 .. created'
    BY <1>1, PathByPath, Opens DEF DbInv, FilesApart
  <2>2. \A p, q \in Paths : disk'[p] = disk'[q] /\ disk'[p] # 0 => p = q
    BY <1>1, PathByPath DEF DbInv, FilesApart
  <2> QED
    BY <1>1, <2>1, <2>2, SameData DEF MoveAway, At, DbInv, FilesApart, marks
<1>3. MineIsThere'
  BY <1>1, SameData DEF MoveAway, At, DbInv, MineIsThere, Place, marks
<1>4. ScanInv'
  BY Crossed DEF MoveAway, At
<1> QED
  BY <1>1, <1>2, <1>3, <1>4 DEF MoveAway, At, DbInv, FileTypes, DbTypeOK, marks

LEMMA FailsEarlyKeeps == ASSUME DbInv, FailsEarly PROVE DbInv'
<1>1. /\ disk' = Without({"temp"}) /\ created' = created /\ data' = data /\ import' = "idle"
      /\ disk'["db"] = disk["db"] /\ disk'["temp"] = 0 /\ disk'["backup"] = disk["backup"]
  BY WithoutIs DEF FailsEarly, Proceeds
<1>2. FilesApart'
  BY <1>1, WithoutTyped, SameData DEF FailsEarly, DbInv, FilesApart, marks
<1>3. MineIsThere'
  BY <1>1, SameData DEF FailsEarly, DbInv, MineIsThere, Place, marks
<1>4. ScanInv'
  BY <1>1 DEF FailsEarly, DbInv, ScanInv, BackupHasTheSaves
<1> QED
  BY <1>1, <1>2, <1>3, <1>4, WithoutTyped
  DEF FailsEarly, DbInv, FileTypes, DbTypeOK, marks

LEMMA MoveInKeeps == ASSUME DbInv, MoveIn PROVE DbInv'
<1>1. /\ disk' = Moved("temp", "db") /\ created' = created /\ data' = data /\ import' = "placed"
      /\ disk'["db"] = disk["temp"] /\ disk'["temp"] = 0 /\ disk'["backup"] = disk["backup"]
      /\ disk' \in [Paths -> Inodes \cup {0}]
  BY MovedIs DEF MoveIn, Proceeds
<1>2. FilesApart'
  <2>1. \A p \in Paths : disk'[p] \in 0 .. created'
    BY <1>1, PathByPath, Opens DEF DbInv, FilesApart
  <2>2. \A p, q \in Paths : disk'[p] = disk'[q] /\ disk'[p] # 0 => p = q
    BY <1>1, PathByPath DEF DbInv, FilesApart
  <2> QED
    BY <1>1, <2>1, <2>2, SameData DEF MoveIn, At, DbInv, FilesApart, marks
<1>3. MineIsThere'
  BY <1>1, SameData DEF MoveIn, At, DbInv, MineIsThere, Place, marks
<1>4. ScanInv'
  BY Crossed DEF MoveIn, At
<1> QED
  BY <1>1, <1>2, <1>3, <1>4 DEF MoveIn, At, DbInv, FileTypes, DbTypeOK, marks

\* The fallback is put back, or lost.
LEMMA RestoresKeeps ==
  ASSUME DbInv, import \in {"moved", "opened"}, alive, Restores, Proceeds("idle"),
         UNCHANGED <<data, created, handle, alive, scan, mine, forked, remade, cutOff>>
  PROVE  DbInv'
<1>1. ScanInv'
  BY Crossed
<1>2. CASE disk' = PutBack /\ UNCHANGED unmoved
  <2>1. /\ disk' \in [Paths -> Inodes \cup {0}] /\ disk'["db"] = disk["backup"]
        /\ disk'["backup"] = 0 /\ disk'["temp"] = 0
    BY <1>2, MovedIs DEF PutBack
  <2>2. FilesApart'
    <3>1. \A p \in Paths : disk'[p] \in 0 .. created'
      BY <2>1, PathByPath, Opens DEF DbInv, FilesApart
    <3>2. \A p, q \in Paths : disk'[p] = disk'[q] /\ disk'[p] # 0 => p = q
      BY <2>1, PathByPath DEF DbInv, FilesApart
    <3> QED
      BY <2>1, <3>1, <3>2, SameData DEF DbInv, FilesApart, Proceeds
  <2>3. MineIsThere'
    BY <1>2, <2>1, SameData DEF DbInv, MineIsThere, Place, Proceeds
  <2> QED
    BY <1>1, <1>2, <2>1, <2>2, <2>3 DEF DbInv, FileTypes, DbTypeOK, Proceeds
<1>3. CASE disk' = Without({"backup", "temp"}) /\ unmoved' = TRUE
  <2>1. disk'["db"] = disk["db"] /\ disk'["backup"] = 0 /\ disk'["temp"] = 0
    BY <1>3, WithoutIs
  <2>2. FilesApart'
    BY <1>3, <2>1, WithoutTyped, SameData DEF DbInv, FilesApart, Proceeds
  <2>3. MineIsThere'
    BY <1>3 DEF MineIsThere
  <2> QED
    BY <1>1, <1>3, <2>2, <2>3, WithoutTyped DEF DbInv, FileTypes, DbTypeOK, Proceeds
<1> QED
  BY <1>2, <1>3 DEF Restores

LEMMA FailuresKeep == ASSUME DbInv, MoveInFails \/ InitFails PROVE DbInv'
BY RestoresKeeps DEF MoveInFails, InitFails, At

LEMMA MigrateAndOpenKeeps == ASSUME DbInv, MigrateAndOpen PROVE DbInv'
<1>1. disk["db"] \in 0 .. created
  BY DEF DbInv, FilesApart
<1>2. FilesApart' /\ MineIsThere'
  BY SameData DEF MigrateAndOpen, At, Proceeds, DbInv, FilesApart, MineIsThere, Place, marks
<1> QED
  BY <1>1, <1>2, CrossingIs
  DEF MigrateAndOpen, At, Proceeds, DbInv, FileTypes, DbTypeOK, marks, Scan

LEMMA InitPassesKeeps == ASSUME DbInv, InitPasses PROVE DbInv'
<1>1. /\ disk' = Without({"backup", "temp"}) /\ created' = created /\ data' = data
      /\ import' = "idle" /\ mine' = disk["db"] /\ Usable(disk["db"])
      /\ disk'["db"] = disk["db"] /\ disk'["temp"] = 0 /\ disk'["backup"] = 0
  BY WithoutIs DEF InitPasses, At, Proceeds, DbInv, FilesApart
<1>2. disk["db"] \in 1 .. created /\ disk["db"] \in Inodes
  BY <1>1, Opens DEF DbInv, FilesApart, Usable
<1>3. FilesApart'
  BY <1>1, <1>2, WithoutTyped, SameData DEF FilesApart
<1>4. MineIsThere'
  BY <1>1, SameData DEF MineIsThere, Place
<1>5. ScanInv'
  BY Crossed DEF InitPasses, At
<1> QED
  BY <1>1, <1>2, <1>3, <1>4, <1>5, WithoutTyped
  DEF InitPasses, DbInv, FileTypes, DbTypeOK

-----------------------------------------------------------------------------
LEMMA ProcessEndsKeeps == ASSUME DbInv, ProcessEnds PROVE DbInv'
<1>a. NoScan \in Scan /\ NoScan.at = "none"
  BY DEF NoScan, NothingSaved, Scan
<1>1. scan' \in Scan /\ scan'.at # "reading" /\ (scan'.at = "done" => scan' = scan)
  BY <1>a DEF ProcessEnds, DbInv, FileTypes
<1>2. FilesApart'
  BY SameData DEF ProcessEnds, Proceeds, DbInv, FilesApart
<1>3. MineIsThere'
  BY SameData DEF ProcessEnds, Proceeds, DbInv, MineIsThere, Place
<1>4. ScanInv'
  BY <1>1 DEF DbInv, ScanInv, BackupHasTheSaves
<1>5. scan'.at \in {"none", "reading", "done"} /\ 0 \in 0 .. created
  BY <1>1, Opens DEF Scan
<1> QED
  BY <1>1, <1>2, <1>3, <1>4, <1>5 DEF ProcessEnds, Proceeds, DbInv, FileTypes, DbTypeOK

LEMMA StartAnewKeeps == ASSUME DbInv, StartAnew PROVE DbInv'
<1>1. created \in Nat /\ created + 1 \in Inodes /\ created' = created + 1
  BY Opens DEF StartAnew
<1>2. /\ disk' \in [Paths -> Inodes \cup {0}] /\ disk'["db"] = created + 1
      /\ disk'["temp"] = disk["temp"] /\ disk'["backup"] = disk["backup"]
  BY <1>1 DEF StartAnew, DbInv, FileTypes, DbTypeOK
<1>3. /\ data' \in [Inodes -> [kind : FileKinds, rows : [Tables -> 0 .. MaxRows]]]
      /\ \A f \in 1 .. created : data'[f] = data[f]
      /\ data'[created + 1].kind = "default"
  BY <1>1, Opens DEF StartAnew, DbInv, FileTypes, DbTypeOK, Data, NothingSaved, FileKinds
<1>4. /\ \A f \in 0 .. created : Usable(f)' <=> Usable(f)
      /\ Usable(disk["db"])'
  BY <1>1, <1>2, <1>3 DEF Usable
<1>5. FileTypes'
  BY <1>1, <1>2, <1>3 DEF StartAnew, DbInv, FileTypes, DbTypeOK
<1>6. FilesApart'
  <2>1. \A p \in Paths : disk'[p] \in 0 .. created'
    BY <1>1, <1>2 DEF DbInv, FilesApart
  <2>2. \A p, q \in Paths : disk'[p] = disk'[q] /\ disk'[p] # 0 => p = q
    BY <1>1, <1>2 DEF DbInv, FilesApart
  <2>3. mine' \in 1 .. created' /\ Usable(mine)' /\ disk'["temp"] # mine'
    BY <1>1, <1>2, <1>4 DEF StartAnew, DbInv, FilesApart
  <2> QED
    BY <1>1, <1>2, <2>1, <2>2, <2>3 DEF StartAnew, DbInv, FileTypes, FilesApart
<1>7. MineIsThere'
  <2>1. Place' = "db" /\ remade'
    BY DEF StartAnew, DbInv, FileTypes, Place
  <2> QED
    BY <1>4, <2>1 DEF MineIsThere
<1>8. ScanInv'
  <2>1. scan.at = "reading" => scan.crossed
    BY DEF StartAnew, DbInv, ScanInv
  <2> QED
    BY <2>1 DEF StartAnew, DbInv, ScanInv, BackupHasTheSaves
<1> QED
  BY <1>5, <1>6, <1>7, <1>8 DEF DbInv

LEMMA StartKeeps == ASSUME DbInv, Start PROVE DbInv'
<1>1. disk["db"] \in 0 .. created
  BY DEF DbInv, FilesApart
<1>2. FilesApart'
  BY SameData DEF Start, DbInv, FileTypes, FilesApart
<1>3. MineIsThere'
  BY SameData DEF Start, DbInv, FileTypes, MineIsThere, Place
<1>4. ScanInv'
  BY DEF Start, DbInv, ScanInv, BackupHasTheSaves
<1> QED
  BY <1>1, <1>2, <1>3, <1>4 DEF Start, DbInv, FileTypes, DbTypeOK

LEMMA DbInvHolds == DbSpec => []DbInv
<1>1. DbInit => DbInv
  <2> SUFFICES ASSUME DbInit PROVE DbInv
    OBVIOUS
  <2>1. NoData \in [kind : FileKinds, rows : [Tables -> 0 .. MaxRows]]
        /\ Data("first", NothingSaved) \in [kind : FileKinds, rows : [Tables -> 0 .. MaxRows]]
    BY DEF NoData, Data, NothingSaved, FileKinds
  <2>2. disk \in [Paths -> Inodes \cup {0}]
    BY DEF DbInit
  <2>3. data \in [Inodes -> [kind : FileKinds, rows : [Tables -> 0 .. MaxRows]]]
    BY <2>1 DEF DbInit
  <2>4. FileTypes
    <3>1. NoScan \in Scan /\ NoScan.at = "none"
      BY DEF NoScan, NothingSaved, Scan
    <3>2. 1 \in Inodes /\ 1 \in 0 .. 1
      OBVIOUS
    <3>3. DbTypeOK
      BY <2>2, <2>3, <3>1, <3>2 DEF DbInit, DbTypeOK
    <3> QED
      BY <3>1, <3>3 DEF DbInit, FileTypes
  <2>5. FilesApart
    BY DEF DbInit, FilesApart, Usable, Data
  <2>6. MineIsThere
    BY DEF DbInit, MineIsThere, Place, Usable, Data
  <2>7. ScanInv
    BY DEF DbInit, ScanInv, BackupHasTheSaves, NoScan
  <2> QED
    BY <2>4, <2>5, <2>6, <2>7 DEF DbInv
<1>2. DbInv /\ [DbNext]_dbvars => DbInv'
  <2> SUFFICES ASSUME DbInv, [DbNext]_dbvars PROVE DbInv'
    OBVIOUS
  <2>1. CASE UNCHANGED dbvars
    BY <2>1 DEF dbvars, DbInv, FileTypes, DbTypeOK, FilesApart, MineIsThere, Place, ScanInv,
                BackupHasTheSaves, Usable
  <2>2. CASE Save \/ GetDb \/ GetDbEnds
    BY <2>2, SaveKeeps, GetDbKeeps, GetDbEndsKeeps
  <2>3. CASE CreateTemp \/ CloseOld \/ Copy \/ RemoveFallback \/ MoveAway \/ FailsEarly
    BY <2>3, CreateTempKeeps, CloseOldKeeps, CopyKeeps, RemoveFallbackKeeps, MoveAwayKeeps,
       FailsEarlyKeeps
  <2>4. CASE MoveIn \/ MoveInFails \/ MigrateAndOpen \/ InitPasses \/ InitFails
    BY <2>4, MoveInKeeps, FailuresKeep, MigrateAndOpenKeeps, InitPassesKeeps
  <2>5. CASE ProcessEnds \/ StartAnew \/ Start
    BY <2>5, ProcessEndsKeeps, StartAnewKeeps, StartKeeps
  <2> QED
    BY <2>1, <2>2, <2>3, <2>4, <2>5 DEF DbNext
<1> QED
  BY <1>1, <1>2, PTL DEF DbSpec

(* Type correctness of the files, the import and the backup.               *)
THEOREM DbTypeCorrect == DbSpec => []DbTypeOK
<1>1. DbInv => DbTypeOK
  BY DEF DbInv, FileTypes
<1> QED
  BY <1>1, DbInvHolds, PTL

(* After any number of imports, failures and restarts the user's rows are  *)
(* at the path or in the fallback, the panel starts with them, and a       *)
(* backup has the saves that were answered before it, outside of the four  *)
(* marked cases (ImportDB, GetDb, InitDB).                                 *)
THEOREM RowsKept == DbSpec => []RowsAreKept
<1>1. DbInv => RowsAreKept
  <2> SUFFICES ASSUME DbInv PROVE RowsAreKept
    OBVIOUS
  <2>1. RowsAreSomewhere
    BY DEF DbInv, MineIsThere, RowsAreSomewhere, Paths
  <2>2. StartsWithItsRows
    BY DEF DbInv, MineIsThere, Place, StartsWithItsRows
  <2> QED
    BY <2>1, <2>2 DEF DbInv, ScanInv, RowsAreKept
<1> QED
  BY <1>1, DbInvHolds, PTL

-----------------------------------------------------------------------------
HIDE DbAssumption DEF Paths, Inodes, Replacing

(***************************************************************************)
(* ClientLinks.                                                            *)
(***************************************************************************)

\* The rows there are, and a link.
Link == [tag : LinkTags, from : LinkInbounds, has : Contents, remark : Contents, tls : Contents]
LiveInbound == [at : {"live"}, tag : LinkTags, has : Contents]
LiveClient ==
  [at : {"live"}, ins : SUBSET LinkInbounds, remark : Contents, links : SUBSET Link,
   ext : SUBSET External]
LiveForm == [at : {"live"}, ins : SUBSET LinkInbounds, remark : Contents]
RowsOf(S, R) == [S -> {Unborn, Dead} \cup R]

LinkTypes ==
  /\ inb \in RowsOf(LinkInbounds, LiveInbound) /\ tls \in Contents
  /\ cli \in RowsOf(LinkClients, LiveClient) /\ tab \in RowsOf(LinkClients, LiveForm)
  /\ pools \subseteq LinkInbounds \X LinkClients
  /\ chosen \in [LinkClients -> SUBSET External]
  /\ pooled \subseteq LinkClients /\ reverted \subseteq LinkClients

\* Tags are unique, which is what finding a link by its tag rests on.
TagsDiffer == \A i, j \in Live(inb) : inb[i].tag = inb[j].tag => i = j

\* A client, and a form, know no inbound that is not there yet, and the user has
\* chosen nothing for a client that is not.
NothingAhead ==
  /\ \A c \in Live(cli) : \A i \in cli[c].ins : inb[i] # Unborn
  /\ \A c \in Live(tab) : \A i \in tab[c].ins : inb[i] # Unborn
  /\ \A c \in LinkClients : cli[c] = Unborn => chosen[c] = {}

LinksInv == LinkTypes /\ TagsDiffer /\ NothingAhead /\ LinksAreCurrent

-----------------------------------------------------------------------------
\* The rows that are live.
LEMMA LiveRows ==
  ASSUME NEW S, NEW R, NEW table \in RowsOf(S, R), \A r \in R : r.at = "live"
  PROVE  /\ Live(table) \subseteq S
         /\ \A x \in S : x \in Live(table) <=> table[x] \in R
         /\ \A x \in S : Born(table, x) => x \notin Live(table)
<1>1. Unborn.at # "live" /\ Dead.at # "live"
  BY DEF Unborn, Dead
<1> QED
  BY <1>1 DEF RowsOf, Live, Born

LEMMA InboundsAre ==
  ASSUME NEW table \in RowsOf(LinkInbounds, LiveInbound)
  PROVE  /\ Live(table) \subseteq LinkInbounds
         /\ \A i \in LinkInbounds : i \in Live(table) <=> table[i] \in LiveInbound
         /\ \A i \in LinkInbounds : Born(table, i) => i \notin Live(table)
<1>1. \A r \in LiveInbound : r.at = "live"
  BY DEF LiveInbound
<1> QED
  BY <1>1, LiveRows

LEMMA ClientsAre ==
  ASSUME NEW table \in RowsOf(LinkClients, LiveClient)
  PROVE  /\ Live(table) \subseteq LinkClients
         /\ \A c \in LinkClients : c \in Live(table) <=> table[c] \in LiveClient
         /\ \A c \in LinkClients : Born(table, c) => c \notin Live(table)
<1>1. \A r \in LiveClient : r.at = "live"
  BY DEF LiveClient
<1> QED
  BY <1>1, LiveRows

LEMMA FormsAre ==
  ASSUME NEW table \in RowsOf(LinkClients, LiveForm)
  PROVE  /\ Live(table) \subseteq LinkClients
         /\ \A c \in LinkClients : c \in Live(table) <=> table[c] \in LiveForm
<1>1. \A r \in LiveForm : r.at = "live"
  BY DEF LiveForm
<1> QED
  BY <1>1, LiveRows

\* Links have the tag of their inbound.
LEMMA LinkTyped ==
  ASSUME NEW inbounds, NEW content \in Contents, NEW i \in LinkInbounds,
         inbounds[i] \in LiveInbound, NEW remark \in Contents
  PROVE  LinkOf(inbounds, content, i, remark) \in Link
BY DEF LinkOf, Link, LiveInbound, Contents

LEMMA LinksTyped ==
  ASSUME NEW inbounds \in RowsOf(LinkInbounds, LiveInbound), NEW content \in Contents, NEW entry,
         entry.remark \in Contents
  PROVE  LinksOf(inbounds, content, entry) \subseteq Link
<1>1. \A r \in LiveInbound : r.at = "live"
  BY DEF LiveInbound
<1>2. Live(inbounds) \subseteq LinkInbounds /\ \A i \in Live(inbounds) : inbounds[i] \in LiveInbound
  BY <1>1, LiveRows
<1> QED
  BY <1>2, LinkTyped DEF LinksOf

\* The links of a client whose inbounds and TLS stay.
LEMMA LinksStay ==
  ASSUME NEW in1, NEW in2, NEW t1, NEW t2, NEW entry,
         entry.ins \cap Live(in1) = entry.ins \cap Live(in2),
         \A j \in entry.ins \cap Live(in1) : in1[j] = in2[j] /\ (j \in Tlsed => t1 = t2)
  PROVE  LinksOf(in1, t1, entry) = LinksOf(in2, t2, entry)
BY DEF LinksOf, LinkOf

Made(inbounds, content, is, remark) == {LinkOf(inbounds, content, i, remark) : i \in is}
Untagged(links, tags) == {l \in links : l.tag \notin tags}
LinksKept(c, tags) == {j \in cli[c].ins \cap Live(inb) : inb[j].tag \notin tags}

\* Links are made again for some inbounds, and the others are found by their tags.
LEMMA LinksRemade ==
  ASSUME NEW c, NEW is, NEW tags, cli'[c].remark = cli[c].remark,
         cli'[c].ins \cap Live(inb') = is \cup LinksKept(c, tags),
         \A j \in LinksKept(c, tags) : inb'[j] = inb[j] /\ (j \in Tlsed => tls' = tls)
  PROVE  LinksOf(inb', tls', cli'[c]) =
           Made(inb', tls', is, cli[c].remark) \cup Untagged(LinksOf(inb, tls, cli[c]), tags)
<1>1. \A j \in LinksKept(c, tags) :
         LinkOf(inb', tls', j, cli[c].remark) = LinkOf(inb, tls, j, cli[c].remark)
  BY DEF LinkOf
<1>2. \A j : LinkOf(inb, tls, j, cli[c].remark).tag = inb[j].tag
  BY DEF LinkOf
<1>3. ASSUME NEW l \in LinksOf(inb', tls', cli'[c])
      PROVE  \/ l \in Made(inb', tls', is, cli[c].remark)
             \/ l \in LinksOf(inb, tls, cli[c]) /\ l.tag \notin tags
  BY <1>1, <1>2 DEF LinksOf, Made, LinksKept
<1>4. ASSUME NEW l \in LinksOf(inb, tls, cli[c]), l.tag \notin tags
      PROVE  l \in LinksOf(inb', tls', cli'[c])
  BY <1>1, <1>2, <1>4 DEF LinksOf, LinksKept
<1>5. Made(inb', tls', is, cli[c].remark) \subseteq LinksOf(inb', tls', cli'[c])
  BY DEF LinksOf, Made
<1> QED
  BY <1>3, <1>4, <1>5 DEF Untagged

\* What LinksAreCurrent says of one client.
Fits(c) ==
  c \in Live(cli) /\ c \notin pooled =>
    /\ c \in reverted \/ cli[c].links = LinksOf(inb, tls, cli[c])
    /\ chosen[c] \ LinkTags \subseteq cli[c].ext

LEMMA FitsIs == ASSUME LinksInv PROVE \A c \in LinkClients : Fits(c)
BY DEF LinksInv, LinksAreCurrent, Fits

\* A client that a step does not touch.
LEMMA FitsStays ==
  ASSUME NEW c \in LinkClients, Fits(c), cli'[c] = cli[c], c \in Live(cli)' => c \in Live(cli),
         chosen'[c] = chosen[c], c \in pooled => c \in pooled', c \in reverted => c \in reverted',
         c \in Live(cli) /\ c \notin pooled' =>
           LinksOf(inb', tls', cli[c]) = LinksOf(inb, tls, cli[c])
  PROVE  Fits(c)'
BY DEF Fits

\* Saves of clients.

LEMMA LoadClientsKeeps == ASSUME LinksInv, LoadClients PROVE LinksInv'
<1>1. ASSUME NEW c \in LinkClients
      PROVE  /\ tab'[c] \in {Unborn, Dead} \cup LiveForm
             /\ tab'[c] \in LiveForm => c \in Live(cli) /\ tab'[c].ins = cli[c].ins
  <2>1. tab'[c] = Loaded(cli[c])
    BY DEF LoadClients
  <2>2. Unborn.at # "live" /\ Dead.at # "live"
    BY DEF Unborn, Dead
  <2>3. CASE c \in Live(cli)
    <3>1. cli[c] \in LiveClient /\ cli[c].at = "live"
      BY <2>3, ClientsAre DEF LinksInv, LinkTypes, LiveClient
    <3> QED
      BY <2>1, <2>3, <3>1 DEF Loaded, LiveForm, LiveClient
  <2>4. CASE c \notin Live(cli)
    <3>1. cli[c] \in {Unborn, Dead} /\ cli[c].at # "live"
      BY <2>2, <2>4, ClientsAre DEF LinksInv, LinkTypes, RowsOf
    <3>2. tab'[c] = cli[c] /\ tab'[c] \notin LiveForm
      BY <2>1, <3>1 DEF Loaded, LiveForm
    <3> QED
      BY <3>1, <3>2
  <2> QED
    BY <2>3, <2>4
<1>2. LinkTypes'
  BY <1>1 DEF LoadClients, LinksInv, LinkTypes, RowsOf
<1>3. TagsDiffer' /\ LinksAreCurrent'
  BY DEF LoadClients, LinksInv, TagsDiffer, LinksAreCurrent
<1>4. NothingAhead'
  <2>1. \A c \in Live(tab)' : c \in Live(cli) /\ tab'[c].ins = cli[c].ins
    BY <1>1, <1>2, FormsAre DEF LinkTypes
  <2> QED
    BY <2>1 DEF LoadClients, LinksInv, NothingAhead
<1> QED
  BY <1>2, <1>3, <1>4 DEF LinksInv

LEMMA SaveOneClientKeeps ==
  ASSUME LinksInv, NEW c \in LinkClients, SaveOneClient(c) PROVE LinksInv'
<1>1. PICK ins \in SUBSET (Live(inb) \cup IF c \in Live(tab) THEN tab[c].ins ELSE {}),
           remark \in Contents, ext \in SUBSET External :
         /\ cli' = [cli EXCEPT ![c] = Relinked(ClientRow(ins, remark, {}, ext))]
         /\ chosen' = [chosen EXCEPT ![c] = ext]
  BY DEF SaveOneClient
<1> DEFINE r == Relinked(ClientRow(ins, remark, {}, ext))
<1>2. LinkTypes
  BY DEF LinksInv
<1>3. ins \subseteq LinkInbounds /\ \A i \in ins : inb[i] # Unborn
  <2>1. \A i \in Live(inb) : i \in LinkInbounds /\ inb[i] # Unborn
    BY <1>2, InboundsAre DEF Born, LinkTypes
  <2>2. c \in Live(tab) => tab[c].ins \subseteq LinkInbounds /\ \A i \in tab[c].ins : inb[i] # Unborn
    BY <1>2, FormsAre DEF LinksInv, NothingAhead, LiveForm, LinkTypes
  <2> QED
    BY <2>1, <2>2
<1>4. /\ r.ins = ins /\ r.remark = remark /\ r.ext = ext /\ r.links = LinksOf(inb, tls, r)
      /\ r \in LiveClient
  <2> DEFINE q == ClientRow(ins, remark, {}, ext)
  <2>1. LinksOf(inb, tls, q) \subseteq Link
    BY <1>2, LinksTyped DEF LinkTypes, ClientRow
  <2>2. r = [at |-> "live", ins |-> ins, remark |-> remark, links |-> LinksOf(inb, tls, q),
             ext |-> ext]
    BY DEF Relinked, ClientRow
  <2>3. LinksOf(inb, tls, q) = LinksOf(inb, tls, r)
    BY <2>2 DEF LinksOf, ClientRow
  <2> HIDE DEF q, r
  <2> QED
    BY <1>3, <2>1, <2>2, <2>3 DEF LiveClient
<1> HIDE DEF r
<1>5. /\ cli' \in RowsOf(LinkClients, LiveClient) /\ cli'[c] = r
      /\ \A d \in LinkClients : d # c => cli'[d] = cli[d]
  <2>1. cli' = [cli EXCEPT ![c] = r]
    BY <1>1 DEF r
  <2>2. cli \in RowsOf(LinkClients, LiveClient) /\ r \in {Unborn, Dead} \cup LiveClient
    BY <1>2, <1>4 DEF LinkTypes
  <2> QED
    BY <2>1, <2>2 DEF RowsOf
<1>6. LinkTypes'
  BY <1>1, <1>2, <1>5 DEF SaveOneClient, LinkTypes
<1>7. /\ Live(cli)' \subseteq LinkClients
      /\ \A d \in LinkClients : d # c => (d \in Live(cli)' <=> d \in Live(cli))
  BY <1>2, <1>5, ClientsAre DEF LinkTypes
<1>8. TagsDiffer'
  BY DEF SaveOneClient, LinksInv, TagsDiffer
<1>9. NothingAhead'
  <2>1. \A d \in Live(cli)' : \A i \in cli'[d].ins : inb[i] # Unborn
    BY <1>3, <1>4, <1>5, <1>7 DEF LinksInv, NothingAhead
  <2>2. \A d \in LinkClients : cli'[d] = Unborn => chosen'[d] = {}
    <3>1. r # Unborn
      BY <1>4 DEF LiveClient, Unborn
    <3> QED
      BY <1>1, <1>2, <1>5, <3>1 DEF LinksInv, NothingAhead, LinkTypes
  <2> QED
    BY <2>1, <2>2 DEF SaveOneClient, LinksInv, NothingAhead
<1>10. ASSUME NEW d \in LinkClients PROVE Fits(d)'
  <2>1. CASE d = c
    BY <1>1, <1>2, <1>4, <1>5, <2>1 DEF Fits, SaveOneClient, LinkTypes
  <2>2. CASE d # c
    <3>1. Fits(d)
      BY FitsIs
    <3> QED
      BY <1>1, <1>2, <1>5, <1>7, <2>2, <3>1, FitsStays DEF SaveOneClient, LinkTypes
  <2> QED
    BY <2>1, <2>2
<1>11. LinksAreCurrent'
  BY <1>7, <1>10 DEF LinksAreCurrent, Fits
<1> QED
  BY <1>6, <1>8, <1>9, <1>11 DEF LinksInv

LEMMA EditBulkKeeps ==
  ASSUME LinksInv, NEW cs \in SUBSET LinkClients, EditBulk(cs) PROVE LinksInv'
<1>1. PICK more \in SUBSET Live(inb), less \in SUBSET Live(inb) :
         LET afresh(c) == [cli[c] EXCEPT !.ins = (tab[c].ins \cup more) \ less,
                                         !.remark = tab[c].remark]
             relinks == \E c \in cs : Changed(c, afresh(c))
         IN  /\ cli' = [c \in LinkClients |->
                          IF c \notin cs THEN cli[c]
                          ELSE IF relinks THEN Relinked(afresh(c)) ELSE afresh(c)]
             /\ reverted' = IF relinks THEN reverted \ cs
                            ELSE reverted \cup {c \in cs : tab[c].remark # cli[c].remark}
  BY DEF EditBulk
<1> DEFINE e(c) == [cli[c] EXCEPT !.ins = (tab[c].ins \cup more) \ less,
                                  !.remark = tab[c].remark]
           relinks == \E c \in cs : Changed(c, e(c))
<1>2. LinkTypes /\ UNCHANGED <<inb, tls, tab, pools, chosen, pooled>>
  BY DEF LinksInv, EditBulk
<1>3. ASSUME NEW c \in cs
      PROVE  /\ cli[c] \in LiveClient /\ e(c) \in LiveClient
             /\ e(c).remark = tab[c].remark /\ e(c).links = cli[c].links /\ e(c).ext = cli[c].ext
             /\ \A i \in e(c).ins : inb[i] # Unborn
  <2>1. c \in Live(cli) /\ c \in Live(tab) /\ cli[c] \in LiveClient /\ tab[c] \in LiveForm
    BY <1>2, ClientsAre, FormsAre DEF EditBulk, LinkTypes
  <2>2. \A i \in Live(inb) : i \in LinkInbounds /\ inb[i] # Unborn
    BY <1>2, InboundsAre DEF Born, LinkTypes
  <2>3. \A i \in tab[c].ins : inb[i] # Unborn
    BY <2>1 DEF LinksInv, NothingAhead
  <2> DEFINE ins == (tab[c].ins \cup more) \ less
  <2>4. ins \subseteq LinkInbounds /\ \A i \in ins : inb[i] # Unborn
    BY <2>1, <2>2, <2>3 DEF LiveForm
  <2>5. e(c) = [cli[c] EXCEPT !.ins = ins, !.remark = tab[c].remark]
    OBVIOUS
  <2> HIDE DEF e, ins
  <2> QED
    BY <2>1, <2>4, <2>5 DEF LiveClient, LiveForm
<1>4. ASSUME NEW c \in cs
      PROVE  LET r == Relinked(e(c)) IN
               /\ r \in LiveClient /\ r.ins = e(c).ins /\ r.remark = e(c).remark
               /\ r.ext = e(c).ext /\ r.links = LinksOf(inb, tls, r)
  <2>1. LinksOf(inb, tls, e(c)) \subseteq Link
    BY <1>2, <1>3, LinksTyped DEF LinkTypes, LiveClient
  <2>2. Relinked(e(c)) = [e(c) EXCEPT !.links = LinksOf(inb, tls, e(c))]
    BY DEF Relinked
  <2> HIDE DEF e
  <2>3. /\ Relinked(e(c)) \in LiveClient
        /\ Relinked(e(c)).ins = e(c).ins /\ Relinked(e(c)).remark = e(c).remark
        /\ Relinked(e(c)).ext = e(c).ext
        /\ Relinked(e(c)).links = LinksOf(inb, tls, e(c))
    BY <1>3, <2>1, <2>2 DEF LiveClient
  <2>4. LinksOf(inb, tls, e(c)) = LinksOf(inb, tls, Relinked(e(c)))
    BY <2>3 DEF LinksOf
  <2> QED
    BY <2>3, <2>4
<1>5. /\ cli' = [c \in LinkClients |-> IF c \notin cs THEN cli[c]
                                      ELSE IF relinks THEN Relinked(e(c)) ELSE e(c)]
      /\ reverted' = IF relinks THEN reverted \ cs
                     ELSE reverted \cup {c \in cs : tab[c].remark # cli[c].remark}
  BY <1>1
<1>6. \A c \in cs : ~relinks => e(c).ins = cli[c].ins
  BY DEF Changed
<1> HIDE DEF e, relinks
<1>7. /\ \A c \in LinkClients \ cs : cli'[c] = cli[c]
      /\ \A c \in cs : cli'[c] \in LiveClient /\ cli'[c].ins = e(c).ins /\ cli'[c].ext = cli[c].ext
      /\ cli' \in RowsOf(LinkClients, LiveClient)
  BY <1>2, <1>3, <1>4, <1>5 DEF LinkTypes, RowsOf
<1>8. LinkTypes'
  BY <1>2, <1>5, <1>7 DEF LinkTypes
<1>9. /\ Live(cli)' \subseteq LinkClients
      /\ \A c \in LinkClients \ cs : c \in Live(cli)' <=> c \in Live(cli)
  BY <1>2, <1>7, ClientsAre DEF LinkTypes
<1>10. TagsDiffer'
  BY <1>2 DEF LinksInv, TagsDiffer
<1>11. NothingAhead'
  <2>1. \A c \in Live(cli)' : \A i \in cli'[c].ins : inb[i] # Unborn
    BY <1>3, <1>7, <1>9 DEF LinksInv, NothingAhead
  <2>2. \A c \in cs : cli'[c] # Unborn
    BY <1>7 DEF LiveClient, Unborn
  <2> QED
    BY <1>2, <1>7, <2>1, <2>2 DEF LinksInv, NothingAhead
<1>12. ASSUME NEW c \in LinkClients PROVE Fits(c)'
  <2>1. Fits(c)
    BY FitsIs
  <2>2. CASE c \notin cs
    BY <1>2, <1>5, <1>7, <1>9, <2>1, <2>2, FitsStays
  <2>3. CASE c \in cs /\ relinks
    <3>1. cli'[c].links = LinksOf(inb, tls, cli'[c])
      BY <1>4, <1>5, <2>3
    <3>2. c \in Live(cli)
      BY <2>3 DEF EditBulk
    <3> QED
      BY <1>2, <1>7, <2>1, <2>3, <3>1, <3>2 DEF Fits
  <2>4. CASE c \in cs /\ ~relinks
    <3>1. cli'[c] = e(c) /\ c \in Live(cli)
      BY <1>5, <2>4 DEF EditBulk
    <3>2. c \notin reverted' => c \notin reverted /\ tab[c].remark = cli[c].remark
      BY <1>5, <2>4
    <3>3. tab[c].remark = cli[c].remark => LinksOf(inb, tls, e(c)) = LinksOf(inb, tls, cli[c])
      BY <1>3, <1>6, <2>4 DEF LinksOf
    <3> QED
      BY <1>2, <1>3, <2>1, <2>4, <3>1, <3>2, <3>3 DEF Fits
  <2> QED
    BY <2>2, <2>3, <2>4
<1>13. LinksAreCurrent'
  BY <1>9, <1>12 DEF LinksAreCurrent, Fits
<1> QED
  BY <1>8, <1>10, <1>11, <1>13 DEF LinksInv

LEMMA DeleteClientsKeeps ==
  ASSUME LinksInv, NEW cs \in SUBSET LinkClients, DeleteClients(cs) PROVE LinksInv'
<1>1. LinkTypes /\ UNCHANGED <<inb, tls, tab, pools>>
  BY DEF LinksInv, DeleteClients
<1>2. /\ cli' \in RowsOf(LinkClients, LiveClient)
      /\ \A c \in LinkClients : cli'[c] = IF c \in cs THEN Dead ELSE cli[c]
      /\ \A c \in LinkClients : chosen'[c] = IF c \in cs THEN {} ELSE chosen[c]
  BY <1>1 DEF DeleteClients, LinkTypes, RowsOf
<1>3. LinkTypes'
  BY <1>1, <1>2 DEF DeleteClients, LinkTypes
<1>4. Dead \notin LiveClient /\ Dead # Unborn
  BY DEF Dead, Unborn, LiveClient
<1>5. /\ Live(cli)' \subseteq LinkClients
      /\ \A c \in LinkClients : c \in Live(cli)' <=> c \in Live(cli) /\ c \notin cs
  BY <1>1, <1>2, <1>4, ClientsAre DEF LinkTypes
<1>6. TagsDiffer' /\ NothingAhead'
  BY <1>1, <1>2, <1>4, <1>5 DEF LinksInv, TagsDiffer, NothingAhead
<1>7. ASSUME NEW c \in LinkClients PROVE Fits(c)'
  <2>1. Fits(c)
    BY FitsIs
  <2> QED
    BY <1>1, <1>2, <1>5, <2>1 DEF DeleteClients, Fits
<1>8. LinksAreCurrent'
  BY <1>5, <1>7 DEF LinksAreCurrent, Fits
<1> QED
  BY <1>3, <1>6, <1>8 DEF LinksInv

-----------------------------------------------------------------------------
\* Saves of inbounds and of the TLS row.

\* The rows of inbounds and clients when one inbound has changed.
LEMMA InboundPut ==
  ASSUME LinkTypes, NEW i \in LinkInbounds, NEW r \in {Unborn, Dead} \cup LiveInbound,
         inb' = [inb EXCEPT ![i] = r]
  PROVE  /\ inb' \in RowsOf(LinkInbounds, LiveInbound) /\ inb'[i] = r
         /\ \A j \in LinkInbounds : j # i => inb'[j] = inb[j]
         /\ Live(inb)' \subseteq LinkInbounds /\ Live(inb) \subseteq LinkInbounds
         /\ \A j \in LinkInbounds : j # i => (j \in Live(inb)' <=> j \in Live(inb))
         /\ i \in Live(inb)' <=> r \in LiveInbound
<1>1. /\ inb' \in RowsOf(LinkInbounds, LiveInbound) /\ inb'[i] = r
      /\ \A j \in LinkInbounds : j # i => inb'[j] = inb[j]
  BY DEF LinkTypes, RowsOf
<1>2. /\ Live(inb)' \subseteq LinkInbounds
      /\ \A j \in LinkInbounds : j \in Live(inb)' <=> inb'[j] \in LiveInbound
  BY <1>1, InboundsAre
<1>3. /\ Live(inb) \subseteq LinkInbounds
      /\ \A j \in LinkInbounds : j \in Live(inb) <=> inb[j] \in LiveInbound
  BY InboundsAre DEF LinkTypes
<1> QED
  BY <1>1, <1>2, <1>3

\* A row that takes an id not given out before.
LEMMA InboundAdded ==
  ASSUME LinkTypes, NEW i \in LinkInbounds, inb[i] = Unborn, NEW r \in LiveInbound,
         inb' = [inb EXCEPT ![i] = r]
  PROVE  /\ inb' \in RowsOf(LinkInbounds, LiveInbound) /\ inb'[i] = r
         /\ \A j \in LinkInbounds : j # i => inb'[j] = inb[j]
         /\ Live(inb)' = Live(inb) \cup {i} /\ i \notin Live(inb) /\ Live(inb) \subseteq LinkInbounds
<1>1. /\ inb' \in RowsOf(LinkInbounds, LiveInbound) /\ inb'[i] = r
      /\ \A j \in LinkInbounds : j # i => inb'[j] = inb[j]
      /\ Live(inb)' \subseteq LinkInbounds /\ Live(inb) \subseteq LinkInbounds
      /\ \A j \in LinkInbounds : j # i => (j \in Live(inb)' <=> j \in Live(inb))
      /\ i \in Live(inb)'
  BY InboundPut
<1>2. i \notin Live(inb)
  BY DEF Live, Unborn
<1>3. \A j \in LinkInbounds : j \in Live(inb)' <=> j \in Live(inb) \cup {i}
  BY <1>1
<1>4. Live(inb)' = Live(inb) \cup {i}
  BY <1>1, <1>3
<1> QED
  BY <1>1, <1>2, <1>4

LEMMA LiveClientsAre ==
  ASSUME LinkTypes, NEW c \in Live(cli)
  PROVE  /\ c \in LinkClients /\ cli[c] \in LiveClient
         /\ cli[c].ins \subseteq LinkInbounds /\ cli[c].remark \in Contents
         /\ cli[c].links \subseteq Link /\ cli[c].ext \subseteq External
<1>1. c \in LinkClients /\ cli[c] \in LiveClient
  BY ClientsAre DEF LinkTypes
<1> QED
  BY <1>1 DEF LiveClient

LEMMA NewInboundKeeps == ASSUME LinksInv, NEW i \in LinkInbounds, NewInbound(i) PROVE LinksInv'
<1>1. PICK tag \in LinkTags, content \in Contents, cs \in SUBSET Live(cli) :
         /\ TagFree(tag, i)
         /\ inb' = [inb EXCEPT ![i] = InboundRow(tag, content)]
         /\ cli' = [c \in LinkClients |->
              IF c \notin cs THEN cli[c]
              ELSE [cli[c] EXCEPT !.ins = @ \cup {i}, !.ext = @ \ {tag},
                      !.links = {LinkOf(inb', tls, i, cli[c].remark)} \cup Others(c, {tag})]]
  BY DEF NewInbound
<1>2. LinkTypes /\ UNCHANGED <<tls, tab, pools, chosen, pooled, reverted>> /\ inb[i] = Unborn
  BY DEF LinksInv, NewInbound, Born
<1>3. InboundRow(tag, content) \in LiveInbound /\ InboundRow(tag, content).tag = tag
  BY DEF InboundRow, LiveInbound
<1>4. /\ inb' \in RowsOf(LinkInbounds, LiveInbound) /\ inb'[i] \in LiveInbound /\ inb'[i].tag = tag
      /\ \A j \in LinkInbounds : j # i => inb'[j] = inb[j]
      /\ Live(inb)' = Live(inb) \cup {i} /\ i \notin Live(inb) /\ Live(inb) \subseteq LinkInbounds
  BY <1>1, <1>2, <1>3, InboundAdded
<1>5. ASSUME NEW c \in cs
      PROVE  /\ cli'[c] \in LiveClient /\ cli'[c].ins = cli[c].ins \cup {i}
             /\ cli'[c].remark = cli[c].remark /\ cli'[c].ext = cli[c].ext \ {tag}
             /\ cli'[c].links = {LinkOf(inb', tls, i, cli[c].remark)} \cup Others(c, {tag})
  <2>1. /\ c \in LinkClients /\ cli[c] \in LiveClient
        /\ cli[c].ins \subseteq LinkInbounds /\ cli[c].remark \in Contents
        /\ cli[c].links \subseteq Link /\ cli[c].ext \subseteq External
    BY <1>2, LiveClientsAre
  <2> DEFINE ls == {LinkOf(inb', tls, i, cli[c].remark)} \cup Others(c, {tag})
  <2>2. ls \subseteq Link
    <3>1. LinkOf(inb', tls, i, cli[c].remark) \in Link
      BY <1>2, <1>4, <2>1, LinkTyped DEF LinkTypes
    <3> QED
      BY <2>1, <3>1 DEF Others
  <2> DEFINE ins == cli[c].ins \cup {i}
             ext == cli[c].ext \ {tag}
  <2>3. cli'[c] = [cli[c] EXCEPT !.ins = ins, !.ext = ext, !.links = ls]
    BY <1>1, <2>1
  <2>5. ins \subseteq LinkInbounds /\ ext \subseteq External
    BY <2>1
  <2>6. /\ cli'[c] \in LiveClient /\ cli'[c].ins = ins /\ cli'[c].remark = cli[c].remark
        /\ cli'[c].ext = ext /\ cli'[c].links = ls
    <3> DEFINE q == cli[c]
               r == cli'[c]
    <3>1. /\ q \in LiveClient /\ r = [q EXCEPT !.ins = ins, !.ext = ext, !.links = ls]
          /\ ins \in SUBSET LinkInbounds /\ ext \in SUBSET External /\ ls \in SUBSET Link
      BY <2>1, <2>2, <2>3, <2>5
    <3> HIDE DEF ls, ins, ext, q, r
    <3>2. /\ r \in LiveClient /\ r.ins = ins /\ r.remark = q.remark /\ r.ext = ext
          /\ r.links = ls
      BY <3>1 DEF LiveClient
    <3> QED
      BY <3>2 DEF q, r
  <2> HIDE DEF ls, ins, ext
  <2>4. /\ cli'[c] \in LiveClient /\ cli'[c].ins = cli[c].ins \cup {i}
        /\ cli'[c].remark = cli[c].remark /\ cli'[c].ext = cli[c].ext \ {tag}
        /\ cli'[c].links = ls
    BY <2>6 DEF ins, ext
  <2> QED
    BY <2>4 DEF ls
<1>6. \A c \in LinkClients \ cs : cli'[c] = cli[c]
  BY <1>1
<1>7. cli' \in RowsOf(LinkClients, LiveClient)
  BY <1>1, <1>2, <1>5, <1>6 DEF LinkTypes, RowsOf
<1>8. Live(cli)' = Live(cli) /\ Live(cli) \subseteq LinkClients
  <2>1. \A c \in cs : cli[c] \in LiveClient
    BY <1>1, <1>2, LiveClientsAre
  <2>2. /\ Live(cli)' \subseteq LinkClients
        /\ \A c \in LinkClients : c \in Live(cli)' <=> cli'[c] \in LiveClient
    BY <1>7, ClientsAre
  <2>3. /\ Live(cli) \subseteq LinkClients
        /\ \A c \in LinkClients : c \in Live(cli) <=> cli[c] \in LiveClient
    BY <1>2, ClientsAre DEF LinkTypes
  <2>4. \A c \in LinkClients : cli'[c] \in LiveClient <=> cli[c] \in LiveClient
    BY <1>5, <1>6, <2>1
  <2> QED
    BY <2>2, <2>3, <2>4
<1>9. LinkTypes'
  BY <1>2, <1>4, <1>7 DEF LinkTypes
<1>10. TagsDiffer'
  <2>1. \A j \in Live(inb) : j # i /\ inb'[j] = inb[j] /\ inb[j].tag # tag
    BY <1>1, <1>4 DEF TagFree
  <2>2. \A j, k \in Live(inb) : inb[j].tag = inb[k].tag => j = k
    BY DEF LinksInv, TagsDiffer
  <2> QED
    BY <1>4, <2>1, <2>2 DEF TagsDiffer
<1>11. NothingAhead'
  <2>1. inb'[i] # Unborn /\ \A j \in LinkInbounds : inb[j] # Unborn => inb'[j] # Unborn
    BY <1>4 DEF LiveInbound, Unborn
  <2>2. \A c \in Live(cli) : \A j \in cli'[c].ins : inb'[j] # Unborn
    BY <1>2, <1>5, <1>6, <1>8, <2>1, LiveClientsAre DEF LinksInv, NothingAhead
  <2>3. \A c \in Live(tab) : \A j \in tab[c].ins : inb'[j] # Unborn
    BY <1>2, <2>1, FormsAre DEF LinksInv, NothingAhead, LinkTypes, LiveForm
  <2>4. \A c \in cs : cli'[c] # Unborn
    BY <1>5 DEF LiveClient, Unborn
  <2> QED
    BY <1>2, <1>6, <1>8, <2>2, <2>3, <2>4 DEF LinksInv, NothingAhead
<1>12. ASSUME NEW c \in LinkClients PROVE Fits(c)'
  <2>1. Fits(c)
    BY FitsIs
  <2>2. CASE c \notin cs
    <3>1. c \in Live(cli) => LinksOf(inb', tls, cli[c]) = LinksOf(inb, tls, cli[c])
      <4> SUFFICES ASSUME c \in Live(cli)
                   PROVE  LinksOf(inb, tls, cli[c]) = LinksOf(inb', tls, cli[c])
        OBVIOUS
      <4>1. i \notin cli[c].ins
        BY <1>2 DEF LinksInv, NothingAhead
      <4> QED
        BY <1>4, <4>1, LinksStay
    <3> QED
      BY <1>2, <1>6, <1>8, <2>1, <2>2, <3>1, FitsStays
  <2>3. CASE c \in cs
    <3>1. /\ cli'[c].ins \cap Live(inb') = {i} \cup (cli[c].ins \cap Live(inb))
          /\ LinksKept(c, {tag}) = cli[c].ins \cap Live(inb)
      BY <1>1, <1>4, <1>5, <2>3 DEF TagFree, LinksKept
    <3>2. \A j \in cli[c].ins \cap Live(inb) : inb'[j] = inb[j]
      BY <1>4
    <3>3. LinksOf(inb', tls', cli'[c]) =
            Made(inb', tls', {i}, cli[c].remark) \cup Untagged(LinksOf(inb, tls, cli[c]), {tag})
      BY <1>2, <1>5, <2>3, <3>1, <3>2, LinksRemade
    <3>4. cli[c].links = LinksOf(inb, tls, cli[c]) => cli'[c].links = LinksOf(inb', tls, cli'[c])
      BY <1>2, <1>5, <2>3, <3>3 DEF Others, Made, Untagged
    <3> QED
      BY <1>2, <1>5, <1>8, <2>1, <2>3, <3>4 DEF Fits
  <2> QED
    BY <2>2, <2>3
<1>13. LinksAreCurrent'
  BY <1>8, <1>12 DEF LinksAreCurrent, Fits
<1> QED
  BY <1>9, <1>10, <1>11, <1>13 DEF LinksInv

\* Links follow inbounds that are saved under their former or new tags.
LEMMA FollowKeeps ==
  ASSUME LinksInv, NEW is \in SUBSET Live(inb), NEW old,
         LinksFollow(is, old, inb', tls'),
         inb' \in RowsOf(LinkInbounds, LiveInbound), Live(inb)' = Live(inb), tls' \in Contents,
         UNCHANGED <<tab, pools, chosen, pooled, reverted>>, TagsDiffer',
         \A j \in LinkInbounds : inb[j] # Unborn => inb'[j] # Unborn,
         \A j \in Live(inb) \ is : /\ inb'[j] = inb[j] /\ (j \in Tlsed => tls' = tls)
                                   /\ inb[j].tag \notin old,
         \A i \in is : inb[i].tag \in old \/ inb'[i].tag = inb[i].tag
  PROVE  LinksInv'
<1>1. LinkTypes /\ Live(inb) \subseteq LinkInbounds /\ \A i \in Live(inb) : inb'[i] \in LiveInbound
  BY InboundsAre DEF LinksInv, LinkTypes
<1> DEFINE made(c) == {LinkOf(inb', tls', i, cli[c].remark) : i \in is \cap cli[c].ins}
           tags(c) == Replaced(old, {inb'[i].tag : i \in is \cap cli[c].ins})
<1>2. ASSUME NEW c \in Users(is)
      PROVE  /\ c \in Live(cli) /\ cli'[c] \in LiveClient
             /\ cli'[c].ins = cli[c].ins /\ cli'[c].remark = cli[c].remark
             /\ cli'[c].ext = cli[c].ext
             /\ cli'[c].links = made(c) \cup Others(c, tags(c))
  <2>1. c \in Live(cli)
    BY DEF Users
  <2>2. /\ c \in LinkClients /\ cli[c] \in LiveClient
        /\ cli[c].ins \subseteq LinkInbounds /\ cli[c].remark \in Contents
        /\ cli[c].links \subseteq Link
    BY <1>1, <2>1, LiveClientsAre
  <2> DEFINE ls == made(c) \cup Others(c, tags(c))
  <2>3. \A i \in is : LinkOf(inb', tls', i, cli[c].remark) \in Link
    BY <1>1, <2>2, LinkTyped
  <2>4. ls \subseteq Link
    BY <2>2, <2>3 DEF Others
  <2>5. cli'[c] = [cli[c] EXCEPT !.links = ls]
    BY <2>2 DEF LinksFollow
  <2> HIDE DEF made, tags, ls
  <2>6. /\ cli'[c] \in LiveClient /\ cli'[c].ins = cli[c].ins /\ cli'[c].remark = cli[c].remark
        /\ cli'[c].ext = cli[c].ext /\ cli'[c].links = ls
    BY <2>2, <2>4, <2>5 DEF LiveClient
  <2> QED
    BY <2>1, <2>6 DEF ls
<1>3. \A c \in LinkClients \ Users(is) : cli'[c] = cli[c]
  BY DEF LinksFollow
<1>4. cli' \in RowsOf(LinkClients, LiveClient)
  <2>1. cli' = [c \in LinkClients |-> cli'[c]]
    BY DEF LinksFollow
  <2> HIDE DEF made, tags
  <2> QED
    BY <1>1, <1>2, <1>3, <2>1 DEF LinkTypes, RowsOf
<1> HIDE DEF made, tags
<1>5. Live(cli)' = Live(cli) /\ Live(cli) \subseteq LinkClients
  <2>1. \A c \in Users(is) : cli[c] \in LiveClient
    BY <1>1, <1>2, LiveClientsAre
  <2>2. /\ Live(cli)' \subseteq LinkClients
        /\ \A c \in LinkClients : c \in Live(cli)' <=> cli'[c] \in LiveClient
    BY <1>4, ClientsAre
  <2>3. /\ Live(cli) \subseteq LinkClients
        /\ \A c \in LinkClients : c \in Live(cli) <=> cli[c] \in LiveClient
    BY <1>1, ClientsAre DEF LinkTypes
  <2>4. \A c \in LinkClients : cli'[c] \in LiveClient <=> cli[c] \in LiveClient
    BY <1>2, <1>3, <2>1
  <2> QED
    BY <2>2, <2>3, <2>4
<1>6. LinkTypes'
  BY <1>1, <1>4 DEF LinkTypes
<1>7. NothingAhead'
  <2>1. \A c \in Live(cli) : cli'[c].ins = cli[c].ins /\ cli[c].ins \subseteq LinkInbounds
    BY <1>1, <1>2, <1>3, <1>5, LiveClientsAre
  <2>2. \A c \in Live(cli) : \A j \in cli'[c].ins : inb'[j] # Unborn
    BY <2>1 DEF LinksInv, NothingAhead
  <2>3. \A c \in Live(tab) : \A j \in tab[c].ins : inb'[j] # Unborn
    BY <1>1, FormsAre DEF LinksInv, NothingAhead, LinkTypes, LiveForm
  <2>4. \A c \in Users(is) : cli'[c] # Unborn
    BY <1>2 DEF LiveClient, Unborn
  <2> QED
    BY <1>3, <1>5, <2>2, <2>3, <2>4 DEF LinksInv, NothingAhead
<1>8. ASSUME NEW c \in LinkClients PROVE Fits(c)'
  <2>1. Fits(c)
    BY FitsIs
  <2>2. CASE c \notin Users(is)
    <3>1. c \in Live(cli) => LinksOf(inb', tls', cli[c]) = LinksOf(inb, tls, cli[c])
      <4> SUFFICES ASSUME c \in Live(cli)
                   PROVE  LinksOf(inb, tls, cli[c]) = LinksOf(inb', tls', cli[c])
        OBVIOUS
      <4>1. cli[c].ins \cap is = {}
        BY <2>2 DEF Users
      <4>2. /\ cli[c].ins \cap Live(inb) = cli[c].ins \cap Live(inb')
            /\ \A j \in cli[c].ins \cap Live(inb) : inb[j] = inb'[j] /\ (j \in Tlsed => tls = tls')
        BY <4>1
      <4> QED
        BY <4>2, LinksStay
    <3> QED
      BY <1>3, <1>5, <2>1, <2>2, <3>1, FitsStays
  <2>3. CASE c \in Users(is)
    <3> DEFINE mine2 == is \cap cli[c].ins
               rest == (cli[c].ins \cap Live(inb)) \ is
    <3>1. cli'[c].ins \cap Live(inb') = mine2 \cup rest
      BY <1>2, <2>3
    <3>2. \A j \in rest : inb[j].tag \notin tags(c) /\ j \in Live(inb')
      BY DEF TagsDiffer, tags, Replaced
    <3>3. \A j \in mine2 : inb[j].tag \in tags(c)
      BY DEF tags, Replaced
    <3>4. LinksKept(c, tags(c)) = rest
      BY <3>2, <3>3 DEF LinksKept
    <3>6. \A j \in rest : inb'[j] = inb[j] /\ (j \in Tlsed => tls' = tls)
      OBVIOUS
    <3>7. LinksOf(inb', tls', cli'[c]) =
            Made(inb', tls', mine2, cli[c].remark)
              \cup Untagged(LinksOf(inb, tls, cli[c]), tags(c))
      <4> HIDE DEF mine2, rest
      <4> QED
        BY <1>2, <2>3, <3>1, <3>4, <3>6, LinksRemade
    <3>5. cli[c].links = LinksOf(inb, tls, cli[c]) => cli'[c].links = LinksOf(inb', tls', cli'[c])
      BY <1>2, <2>3, <3>7 DEF Others, made, Made, Untagged
    <3> QED
      BY <1>2, <1>5, <2>1, <2>3, <3>5 DEF Fits
  <2> QED
    BY <2>2, <2>3
<1>9. LinksAreCurrent'
  BY <1>5, <1>8 DEF LinksAreCurrent, Fits
<1> QED
  BY <1>6, <1>7, <1>9 DEF LinksInv

LEMMA EditInboundKeeps == ASSUME LinksInv, NEW i \in LinkInbounds, EditInbound(i) PROVE LinksInv'
<1>1. PICK tag \in LinkTags, content \in Contents :
         /\ TagFree(tag, i)
         /\ inb' = [inb EXCEPT ![i] = InboundRow(tag, content)]
         /\ LinksFollow({i}, {inb[i].tag}, inb', tls)
  BY DEF EditInbound
<1>2. /\ LinkTypes /\ UNCHANGED <<tls, tab, pools, chosen, pooled, reverted>> /\ i \in Live(inb)
      /\ InboundRow(tag, content) \in LiveInbound /\ InboundRow(tag, content).tag = tag
  BY DEF LinksInv, EditInbound, InboundRow, LiveInbound
<1>3. /\ inb' \in RowsOf(LinkInbounds, LiveInbound) /\ inb'[i] \in LiveInbound /\ inb'[i].tag = tag
      /\ \A j \in LinkInbounds : j # i => inb'[j] = inb[j]
      /\ Live(inb)' = Live(inb) /\ Live(inb) \subseteq LinkInbounds
  <2>1. /\ inb' \in RowsOf(LinkInbounds, LiveInbound) /\ inb'[i] = InboundRow(tag, content)
        /\ \A j \in LinkInbounds : j # i => inb'[j] = inb[j]
        /\ Live(inb)' \subseteq LinkInbounds /\ Live(inb) \subseteq LinkInbounds
        /\ \A j \in LinkInbounds : j # i => (j \in Live(inb)' <=> j \in Live(inb))
        /\ i \in Live(inb)'
    BY <1>1, <1>2, InboundPut
  <2> QED
    BY <1>2, <2>1
<1>4. \A j, k \in Live(inb) : inb[j].tag = inb[k].tag => j = k
  BY DEF LinksInv, TagsDiffer
<1>5. TagsDiffer'
  <2>1. \A j \in Live(inb) \ {i} : inb'[j] = inb[j] /\ inb[j].tag # tag
    BY <1>1, <1>3 DEF TagFree
  <2> QED
    BY <1>3, <1>4, <2>1 DEF TagsDiffer
<1>6. \A j \in LinkInbounds : inb[j] # Unborn => inb'[j] # Unborn
  BY <1>3 DEF LiveInbound, Unborn
<1>7. \A j \in Live(inb) \ {i} : inb'[j] = inb[j] /\ inb[j].tag \notin {inb[i].tag}
  BY <1>2, <1>3, <1>4
<1>8. LinksFollow({i}, {inb[i].tag}, inb', tls') /\ tls' \in Contents
  BY <1>1, <1>2 DEF LinkTypes
<1> QED
  BY <1>2, <1>3, <1>5, <1>6, <1>7, <1>8, FollowKeeps

LEMMA EditTlsKeeps == ASSUME LinksInv, EditTls PROVE LinksInv'
<1>1. /\ LinkTypes /\ UNCHANGED <<inb, tab, pools, chosen, pooled, reverted>>
      /\ tls' \in Contents
  BY DEF LinksInv, LinkTypes, EditTls, Contents
<1>2. LinksFollow(Live(inb) \cap Tlsed, {}, inb', tls') /\ Live(inb)' = Live(inb)
  BY <1>1 DEF EditTls
<1>3. TagsDiffer'
  BY <1>1 DEF LinksInv, TagsDiffer
<1>4. inb' \in RowsOf(LinkInbounds, LiveInbound)
  BY <1>1 DEF LinkTypes
<1> DEFINE is == Live(inb) \cap Tlsed
<1>5. /\ \A j \in LinkInbounds : inb[j] # Unborn => inb'[j] # Unborn
      /\ \A j \in Live(inb) \ is : /\ inb'[j] = inb[j] /\ (j \in Tlsed => tls' = tls)
                                   /\ inb[j].tag \notin {}
      /\ \A i \in is : inb[i].tag \in {} \/ inb'[i].tag = inb[i].tag
      /\ is \in SUBSET Live(inb) /\ LinksFollow(is, {}, inb', tls')
  BY <1>1, <1>2
<1> HIDE DEF is
<1> QED
  BY <1>1, <1>2, <1>3, <1>4, <1>5, FollowKeeps

LEMMA DeleteInboundKeeps ==
  ASSUME LinksInv, NEW i \in LinkInbounds, DeleteInbound(i) PROVE LinksInv'
<1>1. LinkTypes /\ UNCHANGED <<tls, tab, pools, chosen, pooled, reverted>> /\ i \in Live(inb)
  BY DEF LinksInv, DeleteInbound
<1>2. inb[i] \in LiveInbound /\ inb[i].tag \in LinkTags
  BY <1>1, InboundsAre DEF LinkTypes, LiveInbound
<1>3. Dead \notin LiveInbound /\ Dead # Unborn
  BY DEF Dead, Unborn, LiveInbound
<1>4. /\ inb' \in RowsOf(LinkInbounds, LiveInbound) /\ inb'[i] = Dead
      /\ \A j \in LinkInbounds : j # i => inb'[j] = inb[j]
      /\ Live(inb)' = Live(inb) \ {i} /\ Live(inb) \subseteq LinkInbounds
  BY <1>1, <1>3, InboundPut DEF DeleteInbound
<1> DEFINE old == inb[i].tag
<1>5. ASSUME NEW c \in Users({i})
      PROVE  /\ c \in Live(cli) /\ cli[c] \in LiveClient
             /\ cli'[c] \in LiveClient /\ cli'[c].ins = cli[c].ins \ {i}
             /\ cli'[c].remark = cli[c].remark /\ cli'[c].ext = cli[c].ext \ {old}
             /\ cli'[c].links = Others(c, {old})
  <2>1. /\ c \in Live(cli) /\ c \in LinkClients /\ cli[c] \in LiveClient
        /\ cli[c].ins \subseteq LinkInbounds /\ cli[c].links \subseteq Link
        /\ cli[c].ext \subseteq External
    BY <1>1, LiveClientsAre DEF Users
  <2> DEFINE q == cli[c]
             r == cli'[c]
             ins == cli[c].ins \ {i}
             ext == cli[c].ext \ {old}
             ls == Others(c, {old})
  <2>2. /\ q \in LiveClient /\ r = [q EXCEPT !.ins = ins, !.ext = ext, !.links = ls]
        /\ ins \in SUBSET LinkInbounds /\ ext \in SUBSET External /\ ls \in SUBSET Link
    BY <2>1 DEF DeleteInbound, Others
  <2> HIDE DEF ls, ins, ext, q, r
  <2>3. /\ r \in LiveClient /\ r.ins = ins /\ r.remark = q.remark /\ r.ext = ext
        /\ r.links = ls
    BY <2>2 DEF LiveClient
  <2> QED
    BY <2>1, <2>3 DEF ls, ins, ext, q, r
<1>6. \A c \in LinkClients \ Users({i}) : cli'[c] = cli[c]
  BY DEF DeleteInbound
<1>7. cli' \in RowsOf(LinkClients, LiveClient)
  <2>1. cli' = [c \in LinkClients |-> cli'[c]]
    BY DEF DeleteInbound
  <2> QED
    BY <1>1, <1>5, <1>6, <2>1 DEF LinkTypes, RowsOf
<1>8. Live(cli)' = Live(cli) /\ Live(cli) \subseteq LinkClients
  <2>2. /\ Live(cli)' \subseteq LinkClients
        /\ \A c \in LinkClients : c \in Live(cli)' <=> cli'[c] \in LiveClient
    BY <1>7, ClientsAre
  <2>3. /\ Live(cli) \subseteq LinkClients
        /\ \A c \in LinkClients : c \in Live(cli) <=> cli[c] \in LiveClient
    BY <1>1, ClientsAre DEF LinkTypes
  <2>4. \A c \in LinkClients : cli'[c] \in LiveClient <=> cli[c] \in LiveClient
    BY <1>5, <1>6
  <2> QED
    BY <2>2, <2>3, <2>4
<1>9. LinkTypes'
  BY <1>1, <1>4, <1>7 DEF LinkTypes
<1>10. TagsDiffer'
  <2>1. \A j, k \in Live(inb) : inb[j].tag = inb[k].tag => j = k
    BY DEF LinksInv, TagsDiffer
  <2> QED
    BY <1>4, <2>1 DEF TagsDiffer
<1>11. NothingAhead'
  <2>1. \A j \in LinkInbounds : inb[j] # Unborn => inb'[j] # Unborn
    BY <1>3, <1>4
  <2>2. \A c \in Live(cli) : \A j \in cli'[c].ins : inb'[j] # Unborn
    BY <1>1, <1>5, <1>6, <1>8, <2>1, LiveClientsAre DEF LinksInv, NothingAhead
  <2>3. \A c \in Live(tab) : \A j \in tab[c].ins : inb'[j] # Unborn
    BY <1>1, <2>1, FormsAre DEF LinksInv, NothingAhead, LinkTypes, LiveForm
  <2>4. \A c \in Users({i}) : cli'[c] # Unborn
    BY <1>5 DEF LiveClient, Unborn
  <2> QED
    BY <1>1, <1>6, <1>8, <2>2, <2>3, <2>4 DEF LinksInv, NothingAhead
<1>12. ASSUME NEW c \in LinkClients PROVE Fits(c)'
  <2>1. Fits(c)
    BY FitsIs
  <2>2. CASE c \notin Users({i})
    <3>1. c \in Live(cli) => LinksOf(inb', tls', cli[c]) = LinksOf(inb, tls, cli[c])
      <4> SUFFICES ASSUME c \in Live(cli)
                   PROVE  LinksOf(inb, tls, cli[c]) = LinksOf(inb', tls', cli[c])
        OBVIOUS
      <4>1. i \notin cli[c].ins
        BY <2>2 DEF Users
      <4> QED
        BY <1>1, <1>4, <4>1, LinksStay
    <3> QED
      BY <1>1, <1>6, <1>8, <2>1, <2>2, <3>1, FitsStays
  <2>3. CASE c \in Users({i})
    <3>1. /\ cli'[c].ins \cap Live(inb') = {} \cup ((cli[c].ins \cap Live(inb)) \ {i})
          /\ LinksKept(c, {old}) = (cli[c].ins \cap Live(inb)) \ {i}
      BY <1>1, <1>4, <1>5, <2>3 DEF LinksKept, LinksInv, TagsDiffer
    <3>2. \A j \in LinksKept(c, {old}) : inb'[j] = inb[j]
      BY <1>4, <3>1
    <3>3. LinksOf(inb', tls', cli'[c]) =
            Made(inb', tls', {}, cli[c].remark) \cup Untagged(LinksOf(inb, tls, cli[c]), {old})
      <4> HIDE DEF old
      <4>1. cli'[c].remark = cli[c].remark
        BY <1>5, <2>3
      <4>2. cli'[c].ins \cap Live(inb') = {} \cup LinksKept(c, {old})
        BY <3>1
      <4>3. \A j \in LinksKept(c, {old}) : inb'[j] = inb[j] /\ (j \in Tlsed => tls' = tls)
        BY <1>1, <3>2
      <4> QED
        BY <4>1, <4>2, <4>3, LinksRemade
    <3>4. cli[c].links = LinksOf(inb, tls, cli[c]) => cli'[c].links = LinksOf(inb', tls', cli'[c])
      BY <1>5, <2>3, <3>3 DEF Others, Made, Untagged
    <3> QED
      BY <1>1, <1>2, <1>5, <1>8, <2>1, <2>3, <3>4 DEF Fits
  <2> QED
    BY <2>2, <2>3
<1>13. LinksAreCurrent'
  BY <1>8, <1>12 DEF LinksAreCurrent, Fits
<1> QED
  BY <1>9, <1>10, <1>11, <1>13 DEF LinksInv

-----------------------------------------------------------------------------
\* Relay pools.

\* The rows of clients when one client has changed.
LEMMA ClientPut ==
  ASSUME LinkTypes, NEW c \in LinkClients, NEW r \in {Unborn, Dead} \cup LiveClient,
         cli' = [cli EXCEPT ![c] = r]
  PROVE  /\ cli' \in RowsOf(LinkClients, LiveClient) /\ cli'[c] = r
         /\ \A d \in LinkClients : d # c => cli'[d] = cli[d]
         /\ Live(cli)' \subseteq LinkClients /\ Live(cli) \subseteq LinkClients
         /\ \A d \in LinkClients : d # c => (d \in Live(cli)' <=> d \in Live(cli))
         /\ c \in Live(cli)' <=> r \in LiveClient
<1>1. /\ cli' \in RowsOf(LinkClients, LiveClient) /\ cli'[c] = r
      /\ \A d \in LinkClients : d # c => cli'[d] = cli[d]
  BY DEF LinkTypes, RowsOf
<1>2. /\ Live(cli)' \subseteq LinkClients
      /\ \A d \in LinkClients : d \in Live(cli)' <=> cli'[d] \in LiveClient
  BY <1>1, ClientsAre
<1>3. /\ Live(cli) \subseteq LinkClients
      /\ \A d \in LinkClients : d \in Live(cli) <=> cli[d] \in LiveClient
  BY ClientsAre DEF LinkTypes
<1> QED
  BY <1>1, <1>2, <1>3

\* A client without an inbound whose row, and no other, changes.
LEMMA Untouched ==
  ASSUME LinksInv, NEW i \in LinkInbounds, NEW d \in LinkClients, tls' = tls,
         \A j \in LinkInbounds : j # i => inb'[j] = inb[j] /\ (j \in Live(inb)' <=> j \in Live(inb)),
         cli'[d] = cli[d], d \in Live(cli)' => d \in Live(cli), chosen'[d] = chosen[d],
         d \in pooled => d \in pooled', d \in reverted => d \in reverted',
         d \in Live(cli) /\ d \notin pooled' => i \notin cli[d].ins
  PROVE  Fits(d)'
<1>1. Fits(d)
  BY FitsIs
<1>2. ASSUME d \in Live(cli), d \notin pooled'
      PROVE  LinksOf(inb', tls', cli[d]) = LinksOf(inb, tls, cli[d])
  <2>1. cli[d].ins \subseteq LinkInbounds /\ i \notin cli[d].ins
    BY <1>2, LiveClientsAre DEF LinksInv
  <2>2. /\ cli[d].ins \cap Live(inb) = cli[d].ins \cap Live(inb)'
        /\ \A j \in cli[d].ins : inb[j] = inb'[j]
    BY <2>1
  <2>3. LinksOf(inb, tls, cli[d]) = LinksOf(inb', tls', cli[d])
    BY <2>2, LinksStay
  <2> QED
    BY <2>3
<1> QED
  BY <1>1, <1>2, FitsStays

LEMMA CreateRelayKeeps ==
  ASSUME LinksInv, NEW i \in LinkInbounds, NEW c \in LinkClients, CreateRelay(i, c)
  PROVE  LinksInv'
<1>1. PICK tag \in LinkTags :
         /\ TagFree(tag, i)
         /\ inb' = [inb EXCEPT ![i] = InboundRow(tag, 0)]
         /\ cli' = [cli EXCEPT ![c] = ClientRow({i}, 0, {LinkOf(inb', tls, i, 0)}, {})]
  BY DEF CreateRelay
<1>2. /\ LinkTypes /\ UNCHANGED <<tls, tab, chosen, pooled, reverted>>
      /\ inb[i] = Unborn /\ cli[c] = Unborn /\ pools' = pools \cup {<<i, c>>}
  BY DEF LinksInv, CreateRelay, Born
<1>3. InboundRow(tag, 0) \in LiveInbound /\ InboundRow(tag, 0).tag = tag
  BY DEF InboundRow, LiveInbound, Contents
<1>4. /\ inb' \in RowsOf(LinkInbounds, LiveInbound) /\ inb'[i] \in LiveInbound /\ inb'[i].tag = tag
      /\ \A j \in LinkInbounds : j # i => inb'[j] = inb[j]
      /\ Live(inb)' = Live(inb) \cup {i} /\ i \notin Live(inb) /\ Live(inb) \subseteq LinkInbounds
  BY <1>1, <1>2, <1>3, InboundAdded
<1> DEFINE r == ClientRow({i}, 0, {LinkOf(inb', tls, i, 0)}, {})
<1>5. /\ r \in LiveClient /\ r.ins = {i} /\ r.remark = 0 /\ r.ext = {}
      /\ r.links = {LinkOf(inb', tls, i, 0)}
  <2>1. LinkOf(inb', tls, i, 0) \in Link
    BY <1>2, <1>4, LinkTyped DEF LinkTypes, Contents
  <2> QED
    BY <2>1 DEF ClientRow, LiveClient, Contents
<1> HIDE DEF r
<1>6. /\ cli' \in RowsOf(LinkClients, LiveClient) /\ cli'[c] = r
      /\ \A d \in LinkClients : d # c => cli'[d] = cli[d]
      /\ Live(cli)' \subseteq LinkClients /\ Live(cli) \subseteq LinkClients
      /\ \A d \in LinkClients : d # c => (d \in Live(cli)' <=> d \in Live(cli))
  <2>1. cli' = [cli EXCEPT ![c] = r]
    BY <1>1 DEF r
  <2> QED
    BY <1>2, <1>5, <2>1, ClientPut
<1>7. LinkTypes'
  BY <1>2, <1>4, <1>6 DEF LinkTypes
<1>8. TagsDiffer'
  <2>1. \A j \in Live(inb) : j # i /\ inb'[j] = inb[j] /\ inb[j].tag # tag
    BY <1>1, <1>4 DEF TagFree
  <2>2. \A j, k \in Live(inb) : inb[j].tag = inb[k].tag => j = k
    BY DEF LinksInv, TagsDiffer
  <2> QED
    BY <1>4, <2>1, <2>2 DEF TagsDiffer
<1>9. NothingAhead'
  <2>1. inb'[i] # Unborn /\ \A j \in LinkInbounds : inb[j] # Unborn => inb'[j] # Unborn
    BY <1>4 DEF LiveInbound, Unborn
  <2>2. \A d \in Live(cli)' : \A j \in cli'[d].ins : inb'[j] # Unborn
    BY <1>2, <1>5, <1>6, <2>1, LiveClientsAre DEF LinksInv, NothingAhead
  <2>3. \A d \in Live(tab) : \A j \in tab[d].ins : inb'[j] # Unborn
    BY <1>2, <2>1, FormsAre DEF LinksInv, NothingAhead, LinkTypes, LiveForm
  <2>4. r # Unborn
    BY <1>5 DEF LiveClient, Unborn
  <2> QED
    BY <1>2, <1>6, <2>2, <2>3, <2>4 DEF LinksInv, NothingAhead
<1>10. ASSUME NEW d \in LinkClients PROVE Fits(d)'
  <2>1. CASE d = c
    <3>1. chosen'[c] = {}
      BY <1>2 DEF LinksInv, NothingAhead
    <3>2. LinksOf(inb', tls', cli'[c]) = {LinkOf(inb', tls, i, 0)}
      BY <1>2, <1>4, <1>5, <1>6 DEF LinksOf
    <3> QED
      BY <1>5, <1>6, <2>1, <3>1, <3>2 DEF Fits
  <2>2. CASE d # c
    <3>1. d \in Live(cli) => i \notin cli[d].ins
      BY <1>2 DEF LinksInv, NothingAhead
    <3> QED
      BY <1>2, <1>4, <1>6, <2>2, <3>1, Untouched
  <2> QED
    BY <2>1, <2>2
<1>11. LinksAreCurrent'
  BY <1>6, <1>10 DEF LinksAreCurrent, Fits
<1> QED
  BY <1>7, <1>8, <1>9, <1>11 DEF LinksInv

LEMMA DeleteRelayKeeps ==
  ASSUME LinksInv, NEW i \in LinkInbounds, NEW c \in LinkClients, DeleteRelay(i, c)
  PROVE  LinksInv'
<1>1. /\ LinkTypes /\ UNCHANGED <<tls, tab>>
      /\ inb' = [inb EXCEPT ![i] = Dead] /\ cli' = [cli EXCEPT ![c] = Dead]
      /\ pools' \subseteq pools /\ chosen' = [chosen EXCEPT ![c] = {}]
      /\ pooled' = (pooled \cup Users({i})) \ {c} /\ reverted' = reverted \ {c}
  BY DEF LinksInv, DeleteRelay
<1>2. Dead \notin LiveInbound /\ Dead \notin LiveClient /\ Dead # Unborn
  BY DEF Dead, Unborn, LiveInbound, LiveClient
<1>3. /\ inb' \in RowsOf(LinkInbounds, LiveInbound) /\ inb'[i] = Dead
      /\ \A j \in LinkInbounds : j # i => inb'[j] = inb[j] /\ (j \in Live(inb)' <=> j \in Live(inb))
      /\ Live(inb)' = Live(inb) \ {i}
  BY <1>1, <1>2, InboundPut
<1>4. /\ cli' \in RowsOf(LinkClients, LiveClient) /\ cli'[c] = Dead
      /\ \A d \in LinkClients : d # c => cli'[d] = cli[d]
      /\ Live(cli)' = Live(cli) \ {c} /\ Live(cli) \subseteq LinkClients
  BY <1>1, <1>2, ClientPut
<1>5. LinkTypes'
  <2>1. Users({i}) \subseteq LinkClients
    BY <1>4 DEF Users
  <2> QED
    BY <1>1, <1>3, <1>4, <2>1 DEF LinkTypes
<1>6. TagsDiffer'
  <2>1. \A j, k \in Live(inb) : inb[j].tag = inb[k].tag => j = k
    BY DEF LinksInv, TagsDiffer
  <2>2. \A j \in Live(inb)' : j \in Live(inb) /\ inb'[j] = inb[j]
    BY <1>1, <1>3, InboundsAre DEF LinkTypes
  <2> QED
    BY <2>1, <2>2 DEF TagsDiffer
<1>7. NothingAhead'
  <2>1. \A j \in LinkInbounds : inb[j] # Unborn => inb'[j] # Unborn
    BY <1>2, <1>3
  <2>2. \A d \in Live(cli)' : \A j \in cli'[d].ins : inb'[j] # Unborn
    BY <1>1, <1>4, <2>1, LiveClientsAre DEF LinksInv, NothingAhead
  <2>3. \A d \in Live(tab) : \A j \in tab[d].ins : inb'[j] # Unborn
    BY <1>1, <2>1, FormsAre DEF LinksInv, NothingAhead, LinkTypes, LiveForm
  <2>4. \A d \in LinkClients : cli'[d] = Unborn => chosen'[d] = {}
    BY <1>1, <1>2, <1>4 DEF LinksInv, NothingAhead, LinkTypes
  <2> QED
    BY <1>1, <2>2, <2>3, <2>4 DEF NothingAhead
<1>8. ASSUME NEW d \in LinkClients PROVE Fits(d)'
  <2>1. CASE d = c
    BY <1>4, <2>1 DEF Fits
  <2>2. CASE d # c
    <3>1. d \in Live(cli) /\ d \notin pooled' => i \notin cli[d].ins
      BY <1>1, <2>2 DEF Users
    <3>2. chosen'[d] = chosen[d]
      BY <1>1, <2>2 DEF LinkTypes
    <3> QED
      BY <1>1, <1>3, <1>4, <2>2, <3>1, <3>2, Untouched
  <2> QED
    BY <2>1, <2>2
<1>9. LinksAreCurrent'
  BY <1>4, <1>8 DEF LinksAreCurrent, Fits
<1> QED
  BY <1>5, <1>6, <1>7, <1>9 DEF LinksInv

LEMMA RepairRelayKeeps ==
  ASSUME LinksInv, NEW i \in LinkInbounds, NEW c \in LinkClients, RepairRelay(i, c)
  PROVE  LinksInv'
<1>1. /\ LinkTypes /\ UNCHANGED <<tls, tab, pools, chosen, reverted>> /\ i \in Live(inb)
      /\ inb' = [inb EXCEPT ![i].has = 0]
      /\ pooled' = pooled \cup Users({i}) \cup (Live(cli) \cap {c})
  BY DEF LinksInv, RepairRelay
<1> DEFINE r == [inb[i] EXCEPT !.has = 0]
<1>2. inb[i] \in LiveInbound /\ r \in LiveInbound /\ r.tag = inb[i].tag
  <2>1. inb[i] \in LiveInbound
    BY <1>1, InboundsAre DEF LinkTypes
  <2> QED
    BY <2>1 DEF LiveInbound, Contents
<1>3. inb' = [inb EXCEPT ![i] = r]
  BY <1>1 DEF LinkTypes, RowsOf
<1> HIDE DEF r
<1>4. /\ inb' \in RowsOf(LinkInbounds, LiveInbound) /\ inb'[i] = r
      /\ \A j \in LinkInbounds : j # i => inb'[j] = inb[j] /\ (j \in Live(inb)' <=> j \in Live(inb))
      /\ Live(inb)' = Live(inb) /\ Live(inb) \subseteq LinkInbounds
  <2>1. /\ inb' \in RowsOf(LinkInbounds, LiveInbound) /\ inb'[i] = r
        /\ \A j \in LinkInbounds : j # i => inb'[j] = inb[j]
        /\ Live(inb)' \subseteq LinkInbounds /\ Live(inb) \subseteq LinkInbounds
        /\ \A j \in LinkInbounds : j # i => (j \in Live(inb)' <=> j \in Live(inb))
        /\ i \in Live(inb)'
    BY <1>1, <1>2, <1>3, InboundPut
  <2>2. Live(inb)' = Live(inb)
    <3>1. i \in Live(inb)
      BY <1>1
    <3>2. \A j \in LinkInbounds : j \in Live(inb)' <=> j \in Live(inb)
      BY <2>1, <3>1
    <3> QED
      BY <2>1, <3>2
  <2>3. \A j \in LinkInbounds : j # i => inb'[j] = inb[j] /\ (j \in Live(inb)' <=> j \in Live(inb))
    BY <2>1
  <2> QED
    BY <2>1, <2>2, <2>3
<1>5. /\ \A d \in LinkClients : d # c => cli'[d] = cli[d]
      /\ c \notin Live(cli) => cli' = cli
      /\ c \in Live(cli) => cli'[c] \in LiveClient /\ cli'[c].ins = cli[c].ins
      /\ cli' \in RowsOf(LinkClients, LiveClient)
  <2>1. CASE c \notin Live(cli)
    BY <1>1, <2>1 DEF RepairRelay, LinkTypes
  <2>2. CASE c \in Live(cli)
    <3>1. cli[c] \in LiveClient /\ cli \in RowsOf(LinkClients, LiveClient)
      BY <1>1, <2>2, LiveClientsAre DEF LinkTypes
    <3> DEFINE ls == {LinkOf(inb', tls, i, 0)}
               q == [cli[c] EXCEPT !.links = ls, !.ext = {}]
    <3>2. ls \subseteq Link
      <4>1. tls \in Contents /\ 0 \in Contents /\ inb'[i] \in LiveInbound
        BY <1>1, <1>2, <1>4 DEF LinkTypes, Contents
      <4>2. LinkOf(inb', tls, i, 0) \in Link
        BY <4>1, LinkTyped
      <4> QED
        BY <4>2
    <3>3. cli' = [cli EXCEPT ![c].links = ls, ![c].ext = {}]
      BY <2>2 DEF RepairRelay
    <3> HIDE DEF ls
    <3>4. cli' = [cli EXCEPT ![c] = q]
      BY <3>1, <3>3 DEF RowsOf
    <3>5. q \in LiveClient /\ q.ins = cli[c].ins
      BY <3>1, <3>2 DEF LiveClient
    <3> HIDE DEF q
    <3> QED
      BY <1>1, <2>2, <3>4, <3>5, ClientPut
  <2> QED
    BY <2>1, <2>2
<1>6. Live(cli)' = Live(cli) /\ Live(cli) \subseteq LinkClients
  <2>2. /\ Live(cli)' \subseteq LinkClients
        /\ \A d \in LinkClients : d \in Live(cli)' <=> cli'[d] \in LiveClient
    BY <1>5, ClientsAre
  <2>3. /\ Live(cli) \subseteq LinkClients
        /\ \A d \in LinkClients : d \in Live(cli) <=> cli[d] \in LiveClient
    BY <1>1, ClientsAre DEF LinkTypes
  <2> QED
    BY <1>5, <2>2, <2>3
<1>7. LinkTypes'
  <2>1. Users({i}) \subseteq LinkClients
    BY <1>6 DEF Users
  <2> QED
    BY <1>1, <1>4, <1>5, <1>6, <2>1 DEF LinkTypes
<1>8. TagsDiffer'
  <2>1. \A j \in Live(inb) : inb'[j].tag = inb[j].tag
    BY <1>2, <1>4
  <2> QED
    BY <1>4, <2>1 DEF LinksInv, TagsDiffer
<1>9. NothingAhead'
  <2>1. \A j \in LinkInbounds : inb[j] # Unborn => inb'[j] # Unborn
    BY <1>2, <1>4 DEF LiveInbound, Unborn
  <2>2. \A d \in Live(cli) : \A j \in cli'[d].ins : inb'[j] # Unborn
    BY <1>1, <1>5, <1>6, <2>1, LiveClientsAre DEF LinksInv, NothingAhead
  <2>3. \A d \in Live(tab) : \A j \in tab[d].ins : inb'[j] # Unborn
    BY <1>1, <2>1, FormsAre DEF LinksInv, NothingAhead, LinkTypes, LiveForm
  <2>4. \A d \in LinkClients : cli'[d] = Unborn => chosen[d] = {}
    BY <1>5 DEF LinksInv, NothingAhead, LiveClient, Unborn
  <2> QED
    BY <1>1, <1>6, <2>2, <2>3, <2>4 DEF NothingAhead
<1>10. ASSUME NEW d \in LinkClients PROVE Fits(d)'
  <2>1. CASE d = c /\ c \in Live(cli)
    BY <1>1, <2>1 DEF Fits
  <2>2. CASE ~(d = c /\ c \in Live(cli))
    <3>1. d \in Live(cli) /\ d \notin pooled' => i \notin cli[d].ins
      BY <1>1 DEF Users
    <3> QED
      BY <1>1, <1>4, <1>5, <1>6, <2>2, <3>1, Untouched
  <2> QED
    BY <2>1, <2>2
<1>11. LinksAreCurrent'
  BY <1>6, <1>10 DEF LinksAreCurrent, Fits
<1> QED
  BY <1>7, <1>8, <1>9, <1>11 DEF LinksInv

-----------------------------------------------------------------------------
LEMMA LinksInvInit == ASSUME LinksInit PROVE LinksInv
<1>1. LinkTypes /\ Live(inb) = {} /\ Live(cli) = {} /\ Live(tab) = {}
  BY DEF LinksInit, LinkTypes, RowsOf, Live, Unborn, Contents
<1> QED
  BY <1>1 DEF LinksInit, LinksInv, TagsDiffer, NothingAhead, LinksAreCurrent

LEMMA LinksInvHolds == LinksSpec => []LinksInv
<1>1. LinksInit => LinksInv
  BY LinksInvInit
<1>2. LinksInv /\ [LinksNext]_linkvars => LinksInv'
  <2> SUFFICES ASSUME LinksInv, [LinksNext]_linkvars PROVE LinksInv'
    OBVIOUS
  <2>1. CASE LoadClients
    BY <2>1, LoadClientsKeeps
  <2>2. CASE EditTls
    BY <2>2, EditTlsKeeps
  <2>3. CASE \E c \in LinkClients : SaveOneClient(c)
    BY <2>3, SaveOneClientKeeps
  <2>4. CASE \E cs \in SUBSET LinkClients : EditBulk(cs) \/ DeleteClients(cs)
    BY <2>4, EditBulkKeeps, DeleteClientsKeeps
  <2>5. CASE \E i \in LinkInbounds : NewInbound(i) \/ EditInbound(i) \/ DeleteInbound(i)
    BY <2>5, NewInboundKeeps, EditInboundKeeps, DeleteInboundKeeps
  <2>6. CASE \E i \in LinkInbounds, c \in LinkClients :
               CreateRelay(i, c) \/ DeleteRelay(i, c) \/ RepairRelay(i, c)
    BY <2>6, CreateRelayKeeps, DeleteRelayKeeps, RepairRelayKeeps
  <2>7. CASE UNCHANGED linkvars
    BY <2>7 DEF linkvars, LinksInv, LinkTypes, TagsDiffer, NothingAhead, LinksAreCurrent
  <2> QED
    BY <2>1, <2>2, <2>3, <2>4, <2>5, <2>6, <2>7 DEF LinksNext
<1> QED
  BY <1>1, <1>2, PTL DEF LinksSpec

\* Rows of inbounds, clients and the TLS row have their types, and tags are unique.
THEOREM LinksTypeCorrect == LinksSpec => []LinksTypeOK
<1>1. ASSUME LinksInv PROVE LinksTypeOK
  <2>1. \A i \in Live(inb) : inb[i] \in LiveInbound
    BY <1>1, InboundsAre DEF LinksInv, LinkTypes
  <2>2. \A c \in Live(cli) : cli[c].ins \subseteq LinkInbounds /\ cli[c].ext \subseteq External
    BY <1>1, LiveClientsAre DEF LinksInv
  <2> QED
    BY <1>1, <2>1, <2>2 DEF LinksTypeOK, LinksInv, LinkTypes, TagsDiffer, LiveInbound
<1> QED
  BY <1>1, LinksInvHolds, PTL

\* Whichever rows are renamed, edited or deleted, and however old the rows are that a
\* browser saves, clients have the current links of their inbounds and their external
\* links, but for what pools and bulk edits are known to do.
THEOREM LinksCurrent == LinksSpec => []LinksAreCurrent
BY LinksInvHolds, PTL DEF LinksInv

-----------------------------------------------------------------------------
(***************************************************************************)
(* The six components side by side.                                        *)
(***************************************************************************)

(* Whatever the modules of the panel do side by side, each of them only     *)
(* does what it may do alone, since what two of them have to do with each   *)
(* other is within a module: a save with the cores it patches               *)
(* (service/config.go:416), jobs with clients, pools with rules, rows with  *)
(* links.  So what is proved of one holds in the run of all of them.        *)
THEOREM PanelComposes ==
  PanelSpec => Spec /\ QuotaSpec /\ RoutesSpec /\ TokensSpec /\ DbSpec /\ LinksSpec
<1>1. PanelInit => Init /\ QuotaInit /\ RoutesInit /\ TokensInit /\ DbInit /\ LinksInit
  BY DEF PanelInit
<1>2. ASSUME [PanelNext]_allvars
      PROVE  /\ [Next]_vars /\ [QuotaNext]_qvars /\ [RoutesNext]_routevars
             /\ [TokensNext]_tokenvars /\ [DbNext]_dbvars /\ [LinksNext]_linkvars
  <2>1. CASE Saving
    BY <2>1 DEF Saving
  <2>2. CASE Billing
    BY <2>2 DEF Billing
  <2>3. CASE Routing
    BY <2>3 DEF Routing
  <2>4. CASE Admitting
    BY <2>4 DEF Admitting
  <2>5. CASE Importing
    BY <2>5 DEF Importing
  <2>6. CASE Linking
    BY <2>6 DEF Linking
  <2>7. CASE UNCHANGED allvars
    BY <2>7 DEF allvars
  <2> QED
    BY <1>2, <2>1, <2>2, <2>3, <2>4, <2>5, <2>6, <2>7 DEF PanelNext
<1> QED
  BY <1>1, <1>2, PTL DEF PanelSpec, Spec, QuotaSpec, RoutesSpec, TokensSpec, DbSpec, LinksSpec

(* Every component keeps its types beside the others, for any objects,      *)
(* clients, pools, tokens, files and links (the tables of database/model).  *)
THEOREM PanelTypes == PanelSpec => []PanelTypeOK
<1>1. TypeOK /\ QuotaTypeOK /\ RoutesTypeOK /\ TokensTypeOK /\ DbTypeOK /\ LinksTypeOK
        => PanelTypeOK
  BY DEF PanelTypeOK
<1> QED
  BY <1>1, PanelComposes, SaveTypeCorrect, QuotaTypeCorrect, RoutesTyped, TokensTypeCorrect,
     DbTypeCorrect, LinksTypeCorrect, PTL
===============================================================================
