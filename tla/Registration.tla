---------------------------- MODULE Registration ----------------------------
(***************************************************************************)
(* The Telegram bot's /register dialogue beside everything of Discovery:   *)
(* web requests and the scraper on the same tables.                        *)
(*                                                                         *)
(* The updates of one chat are handled one at a time; a handler that       *)
(* stores an account runs over several statements, and web requests of the *)
(* same user run in between.  The dialogue's state is in memory only: a    *)
(* restart of the pod, which also ends the web requests it serves, loses   *)
(* it, while the keyboards already sent stay in the chat and can be        *)
(* pressed at any time.                                                    *)
(*                                                                         *)
(* /start, /help, /watch, /accounts and their like only send messages.     *)
(***************************************************************************)
EXTENDS Discovery

VARIABLES
  dialog,         \* [User -> state of the chat's dialogue]
  bot,            \* [User -> the handler of the chat's current update]
  (* history *)
  wanted          \* users who sent /register and whose dialogue goes on

chat == <<dialog, bot, wanted>>
chatVars == <<vars, chat>>
-----------------------------------------------------------------------------
Idle == [at |-> "idle", line |-> "rcg"]
Dialogue == [at : {"idle", "line", "login", "password"}, line : Line]

Ready == [at |-> "free", line |-> "rcg", cred |-> 0, todo |-> {}]
Handler == [at : {"free", "user", "account", "stored", "test"},
            line : Line, cred : 0..MaxCred, todo : SUBSET Account]

ChatTypeOK ==
  /\ TypeOK
  /\ dialog \in [User -> Dialogue]
  /\ bot \in [User -> Handler]
  /\ wanted \in SUBSET User

ChatInit ==
  /\ Init
  /\ dialog = [u \in User |-> Idle]
  /\ bot = [u \in User |-> Ready]
  /\ wanted = {}

Says(u, at, line) == dialog' = [dialog EXCEPT ![u] = [at |-> at, line |-> line]]
Handles(u, state) == bot' = [bot EXCEPT ![u] = state]
-----------------------------------------------------------------------------
(* Commands.                                                                *)

SendRegister(u) ==
  /\ bot[u].at = "free"
  /\ Says(u, "line", "rcg")
  /\ wanted' = wanted \cup {u}
  /\ UNCHANGED <<vars, bot>>

SendCancel(u) ==
  /\ bot[u].at = "free"
  /\ dialog' = [dialog EXCEPT ![u] = Idle]
  /\ wanted' = wanted \ {u}
  /\ UNCHANGED <<vars, bot>>

(* The dialogue, if one is going on, stays where it is.                     *)
SendUnregister(u) ==
  /\ bot[u].at = "free"
  /\ Unregister(u)
  /\ UNCHANGED chat

SendTest(u) ==
  /\ bot[u].at = "free"
  /\ status[u] # "absent"
  /\ AccountsOf(u) # {}
  /\ Handles(u, [Ready EXCEPT !.at = "test", !.todo = AccountsOf(u)])
  /\ UNCHANGED <<vars, dialog, wanted>>
-----------------------------------------------------------------------------
(* Keyboards: any button ever sent may be pressed now.                      *)

PressLine_AnyTime(u, line) ==  \* mutant: the dialogue's state is not asked
  /\ bot[u].at = "free"
  /\ <<u, line>> \in Links
  /\ Says(u, "login", line)
  /\ UNCHANGED <<vars, bot, wanted>>
PressLine(u, line) ==
  /\ bot[u].at = "free"
  /\ dialog[u].at = "line"
  /\ <<u, line>> \in Links
  /\ Says(u, "login", line)
  /\ UNCHANGED <<vars, bot, wanted>>

PressRemove(u, line) ==
  /\ bot[u].at = "free"
  /\ RemoveAccount(u, line)
  /\ UNCHANGED chat
-----------------------------------------------------------------------------
(* Text.  A stray one, or a login that is not an e-mail where one is asked  *)
(* for, changes nothing.                                                    *)

TypeLogin(u) ==
  /\ bot[u].at = "free"
  /\ dialog[u].at = "login"
  /\ Says(u, "password", dialog[u].line)
  /\ UNCHANGED <<vars, bot, wanted>>

(* The dialogue is over before anything is stored.                          *)
TypePassword(u) ==
  /\ bot[u].at = "free"
  /\ dialog[u].at = "password"
  /\ issued < MaxCred
  /\ issued' = issued + 1
  /\ dialog' = [dialog EXCEPT ![u] = Idle]
  /\ Handles(u, [Ready EXCEPT !.at = "user", !.line = dialog[u].line,
                              !.cred = issued + 1])
  /\ wanted' = wanted \ {u}
  /\ UNCHANGED <<tables, pass, runs, history>>

(* link_account: store the user, store the account, test the login.         *)
LinkUser(u) ==
  /\ bot[u].at = "user"
  /\ status' = [status EXCEPT ![u] = "active"]
  /\ Handles(u, [bot[u] EXCEPT !.at = "account"])
  /\ UNCHANGED <<accounts, verdict, bookings, subs, pass, issued, runs, history,
                 dialog, wanted>>

LinkAccount(u) ==
  /\ bot[u].at = "account"
  /\ accounts' = Upserted(u, bot[u].line, bot[u].cred)
  /\ verdict' = Cleared(u, bot[u].line)
  /\ Handles(u, [bot[u] EXCEPT !.at = "stored",
                   !.todo = {a \in Upserted(u, bot[u].line, bot[u].cred) :
                               a.user = u /\ a.line = bot[u].line}])
  /\ UNCHANGED <<status, bookings, subs, pass, issued, runs, history, dialog,
                 wanted>>

(* A statement fails, or the message that the account is stored cannot be   *)
(* sent: what is stored stays, the login is not tested.                     *)
LinkFails(u) ==
  /\ bot[u].at \in {"user", "account", "stored"}
  /\ Handles(u, Ready)
  /\ UNCHANGED <<vars, dialog, wanted>>

LinkStored(u) ==
  /\ bot[u].at = "stored"
  /\ Handles(u, [bot[u] EXCEPT !.at = "test"])
  /\ UNCHANGED <<vars, dialog, wanted>>

(* One login test and its record, by the id of the row; a failing record is *)
(* ignored, a failing send ends /test before its other accounts.            *)
TestLogin(u) ==
  /\ bot[u].at = "test"
  /\ \E a \in bot[u].todo, outcome \in {"ok", "failed"} :
       /\ verdict' \in {Recorded(a, outcome), verdict}
       /\ \E rest \in {bot[u].todo \ {a}, {}} :
            Handles(u, IF rest = {} THEN Ready
                       ELSE [bot[u] EXCEPT !.todo = rest])
  /\ UNCHANGED <<status, accounts, bookings, subs, pass, issued, runs, history,
                 dialog, wanted>>
-----------------------------------------------------------------------------
(* The pod is killed: dialogues, handlers and web requests are gone.        *)
Restart ==
  /\ dialog' = [u \in User |-> Idle]
  /\ bot' = [u \in User |-> Ready]
  /\ pass' = [w \in Worker |-> IF w \in Request THEN NoPass ELSE pass[w]]
  /\ wanted' = {}
  /\ UNCHANGED <<tables, issued, runs, history>>

BotStep(u) ==
  LinkUser(u) \/ LinkAccount(u) \/ LinkFails(u) \/ LinkStored(u) \/ TestLogin(u)

ChatStep(u) ==
  \/ SendRegister(u) \/ SendCancel(u) \/ SendUnregister(u) \/ SendTest(u)
  \/ \E line \in Line : PressLine(u, line) \/ PressRemove(u, line)
  \/ TypeLogin(u) \/ TypePassword(u)
  \/ BotStep(u)

ChatNext ==
  \/ WebAndScraper /\ UNCHANGED chat
  \/ \E u \in User : ChatStep(u)
  \/ Restart

ChatSpec == ChatInit /\ [][ChatNext]_chatVars
-----------------------------------------------------------------------------
(* Properties.                                                              *)

(* The bot stores a login only at the end of a dialogue that /register      *)
(* began and that was neither cancelled nor lost: a line button left over   *)
(* in the chat starts nothing (on_callback's check).                        *)
LinksOnlyAfterRegister ==
  [][\A u \in User :
       bot[u].at = "free" /\ bot'[u].at = "user" => u \in wanted]_chatVars
=============================================================================
