------------------------------ MODULE ApiTokens ------------------------------
(***************************************************************************)
(* The administrator, the browser sessions and the API tokens              *)
(* (service/user.go, api/apiHandler.go, api/apiV2Handler.go,               *)
(* api/session.go).                                                        *)
(*                                                                         *)
(* A session cookie holds the user name of its login and nothing else.     *)
(* The tokens table has a token's owner by id; the API tests a token       *)
(* against a list in memory, which a handler reads again after it changed  *)
(* the table, and which the panel reads when it starts.                    *)
(*                                                                         *)
(* Bounds: MaxTokens tokens are ever added; user names and passwords are   *)
(* taken from Names and Words.                                             *)
(***************************************************************************)
EXTENDS Naturals, FiniteSets

CONSTANTS
    Tabs,       \* browser sessions, each with one request at a time
    Names,      \* user names
    Words,      \* passwords
    Admin,      \* the name initUser gives the first user
    Default,    \* and its password
    None,       \* no name
    MaxTokens

ASSUME TokensAssumption == Admin \in Names /\ Default \in Words /\ MaxTokens \in Nat

VARIABLES
    user,       \* the row of the users table
    session,    \* the name in each session's cookie
    tokens,     \* ids of the rows of the tokens table
    ownerless,  \* those whose user_id names no user
    expired,    \* ids of tokens whose expiry has passed
    added,      \* number of tokens added so far
    cache,      \* the list in memory
    op,         \* the request each session is waiting for
    serving,    \* the panel runs
    wanted,     \* the password last set by changePass
    crossed,    \* a password was changed while a login on a plain one was handled
    misnamed,   \* a token was asked for under a name that is no longer the user's
    overtaken   \* the list in memory is an older reading than another's, or
                \* the last attempt to read it again failed

tokenvars == <<user, session, tokens, ownerless, expired, added, cache, op, serving,
               wanted, crossed, misnamed, overtaken>>

Ids == 1 .. MaxTokens
NoRequest ==
    [at |-> "idle", name |-> None, word |-> Default, plain |-> FALSE, list |-> {}, late |-> FALSE]

Valid == tokens \ expired

(* The first start: initUser stores the default password as it is.         *)
TokensInit ==
    /\ user = [name |-> Admin, word |-> Default, plain |-> TRUE]
    /\ session = [t \in Tabs |-> None]
    /\ tokens = {} /\ ownerless = {} /\ expired = {} /\ added = 0
    /\ cache = {}
    /\ op = [t \in Tabs |-> NoRequest]
    /\ serving = TRUE
    /\ wanted = Default
    /\ crossed = FALSE /\ misnamed = FALSE /\ overtaken = FALSE

MayAsk(t) == serving /\ op[t].at = "idle"
Goto(t, at) == op' = [op EXCEPT ![t].at = at]
Leave(t) == op' = [op EXCEPT ![t] = NoRequest]
tablevars == <<tokens, ownerless, expired, added, cache, misnamed, overtaken>>

-----------------------------------------------------------------------------
(* Login: CheckUser compares the password with the row it read.            *)
LoginRead(t, w) ==
    /\ MayAsk(t)
    /\ w = user.word
    /\ op' = [op EXCEPT ![t] = [NoRequest EXCEPT !.at = "login", !.name = user.name,
                                           !.word = w, !.plain = user.plain]]
    /\ UNCHANGED <<user, session, serving, wanted, crossed, tablevars>>

(* A password that was stored as it is gets hashed, in the row of this id. *)
Upgrades(o) == o.plain

LoginWrite(t) ==
    /\ op[t].at = "login"
    /\ user' = IF Upgrades(op[t]) THEN [user EXCEPT !.word = op[t].word, !.plain = FALSE]
               ELSE user
    /\ session' = [session EXCEPT ![t] = op[t].name]
    /\ Leave(t)
    /\ UNCHANGED <<serving, wanted, crossed, tablevars>>

Logout(t) ==
    /\ MayAsk(t)
    /\ session[t] # None
    /\ session' = [session EXCEPT ![t] = None]
    /\ UNCHANGED <<user, op, serving, wanted, crossed, tablevars>>

(* ChangePass: the old password is compared, then the whole row is saved.  *)
(* The cookies of this and of other sessions keep the old name.            *)
ChangeRead(t, old, name, word) ==
    /\ MayAsk(t)
    /\ session[t] # None
    /\ old = user.word
    /\ op' = [op EXCEPT ![t] = [NoRequest EXCEPT !.at = "change", !.name = name, !.word = word]]
    /\ UNCHANGED <<user, session, serving, wanted, crossed, tablevars>>

ChangeSave(t) ==
    /\ op[t].at = "change"
    /\ user' = [name |-> op[t].name, word |-> op[t].word, plain |-> FALSE]
    /\ wanted' = op[t].word
    /\ crossed' = (crossed \/ \E o \in Tabs : op[o].at = "login" /\ op[o].plain)
    /\ Leave(t)
    /\ UNCHANGED <<session, serving, tablevars>>

-----------------------------------------------------------------------------
(* AddToken looks the id of the session's user up by name; without a row   *)
(* it stays 0, and the token is created all the same.                      *)
Owned(name) == name = user.name

AddToken(t) ==
    /\ MayAsk(t)
    /\ session[t] # None
    /\ added < MaxTokens
    /\ added' = added + 1
    /\ tokens' = tokens \cup {added + 1}
    /\ ownerless' = IF Owned(session[t]) THEN ownerless ELSE ownerless \cup {added + 1}
    /\ misnamed' = (misnamed \/ session[t] # user.name)
    /\ Goto(t, "reload")
    /\ UNCHANGED <<user, session, expired, cache, serving, wanted, crossed, overtaken>>

\* A mutant: the list is not read again after a deletion.
NoReload == "idle"

AfterDelete == "reload"

DeleteToken(t, i) ==
    /\ MayAsk(t)
    /\ session[t] # None
    /\ i \in tokens
    /\ tokens' = tokens \ {i}
    /\ ownerless' = ownerless \ {i}
    /\ Goto(t, AfterDelete)
    /\ UNCHANGED <<user, session, expired, added, cache, serving, wanted, crossed, misnamed,
                   overtaken>>

(* LoadTokens takes the name of each token's user.  Without one that is a  *)
(* nil pointer: the panic ends the request, with the list as it was.       *)
Loads == Valid \cap ownerless = {}

ReloadRead(t) ==
    /\ op[t].at = "reload"
    /\ Loads
    /\ op' = [op EXCEPT ![t].at = "loaded", ![t].list = Valid]
    /\ UNCHANGED <<user, session, serving, wanted, crossed, tablevars>>

(* The request of t is over; what others have read is older than this.     *)
Passed(t) == [o \in Tabs |-> IF o = t THEN NoRequest
                             ELSE IF op[o].at = "loaded" THEN [op[o] EXCEPT !.late = TRUE]
                             ELSE op[o]]

ReloadPanics(t) ==
    /\ op[t].at = "reload"
    /\ ~Loads
    /\ overtaken' = TRUE
    /\ op' = Passed(t)
    /\ UNCHANGED <<user, session, tokens, ownerless, expired, added, cache, serving, wanted,
                   crossed, misnamed>>

(* The list takes the lock only to be replaced, so readings of two         *)
(* requests replace it in either order.                                    *)
ReloadSwap(t) ==
    /\ op[t].at = "loaded"
    /\ cache' = op[t].list
    /\ overtaken' = op[t].late
    /\ op' = Passed(t)
    /\ UNCHANGED <<user, session, tokens, ownerless, expired, added, serving, wanted, crossed,
                   misnamed>>

(* Time reaches a token's expiry: findUsername skips it from then on.      *)
ExpireToken(i) ==
    /\ i \in tokens \ expired
    /\ expired' = expired \cup {i}
    /\ UNCHANGED <<user, session, tokens, ownerless, added, cache, op, serving, wanted, crossed,
                   misnamed, overtaken>>

(* The panel is restarted, in the middle of its requests too.  It reads    *)
(* the tokens before it serves, and the panic now ends the process.        *)
Restart ==
    /\ serving' = Loads
    /\ cache' = IF Loads THEN Valid ELSE {}
    /\ overtaken' = FALSE
    /\ op' = [t \in Tabs |-> NoRequest]
    /\ UNCHANGED <<user, session, tokens, ownerless, expired, added, wanted, crossed, misnamed>>

TokensNext ==
    \/ \E t \in Tabs :
        \/ \E w \in Words : LoginRead(t, w)
        \/ LoginWrite(t) \/ Logout(t)
        \/ \E old, word \in Words, name \in Names : ChangeRead(t, old, name, word)
        \/ ChangeSave(t)
        \/ AddToken(t) \/ (\E i \in Ids : DeleteToken(t, i))
        \/ ReloadRead(t) \/ ReloadPanics(t) \/ ReloadSwap(t)
    \/ \E i \in Ids : ExpireToken(i)
    \/ Restart

TokensSpec == TokensInit /\ [][TokensNext]_tokenvars

-----------------------------------------------------------------------------
TokensTypeOK ==
    /\ user \in [name : Names, word : Words, plain : BOOLEAN]
    /\ session \in [Tabs -> Names \cup {None}]
    /\ ownerless \subseteq tokens /\ tokens \subseteq 1 .. added /\ expired \subseteq 1 .. added
    /\ cache \subseteq 1 .. added
    /\ op \in [Tabs -> [at : {"idle", "login", "change", "reload", "loaded"},
                        name : Names \cup {None}, word : Words, plain : BOOLEAN,
                        list : SUBSET Ids, late : BOOLEAN]]
    /\ wanted \in Words

(* With no request between its change and its reload, the API accepts the  *)
(* tokens of the table and no others, unless the list in memory is an      *)
(* older reading that replaced a newer one (ReloadTokens), or one that     *)
(* could not be read again for a token without a user (LoadTokens).  And   *)
(* the panel starts again, unless a session asked for a token under a name *)
(* that had been changed since its login (AddToken, NewAPIv2Handler).      *)
TokensAreFollowed ==
    /\ \/ ~serving \/ overtaken
       \/ \E t \in Tabs : op[t].at \in {"reload", "loaded"}
       \/ cache \ expired = Valid
    /\ serving \/ misnamed

(* The password is the one changePass last set, unless it was set while a  *)
(* login was being handled that found the password stored as it is, and    *)
(* which then stores the old one again (CheckUser).                        *)
PasswordIsTheLastSet == user.word = wanted \/ crossed

(* The two: the API accepts who the rows say.                              *)
AccountsHold == TokensAreFollowed /\ PasswordIsTheLastSet

=============================================================================
