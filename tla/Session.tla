------------------------------ MODULE Session ------------------------------
(***************************************************************************)
(* The life of a user's session across the three parties that share it:   *)
(*                                                                         *)
(*  - the gateway process: websocket.Server accepts a connection, asks    *)
(*    serv.Handler.Accept for a channel id (which forwards the SignIn      *)
(*    packet to a login service), adds the channel to its ChannelMap,      *)
(*    reads it until it ends, removes it and forwards a SignOut packet;    *)
(*  - the login service: one goroutine per packet (core.Channel.Readloop   *)
(*    starts `go lst.Receive`), running DoSysLogin or DoSysLogout;         *)
(*  - redis: the location key login:loc:<account> and the session key      *)
(*    login:sn:<channel>, written one command at a time.                   *)
(*                                                                         *)
(* A channel id is <gateway>_<account>_<sequence>, so it determines its    *)
(* account (Owner) and its gateway (Gate), and one process never uses an   *)
(* id twice.  Packets to a login service are handled by goroutines whose   *)
(* order is free, so a packet in transit and a goroutine that has not yet  *)
(* touched redis are the same program-counter value.                       *)
(***************************************************************************)

CONSTANTS
    Account,   \* user accounts
    Gateway,   \* gateway processes
    Channel,   \* channel ids the gateways may hand out
    Owner,     \* the account inside a channel id
    Gate,      \* the gateway inside a channel id
    Nil,       \* redis.Nil: no such key
    Faults     \* the kinds of failure that may happen in a behaviour

FaultKinds == {"forward", "redis", "crash", "stop", "expiry"}

ASSUME SessionAssumption ==
    /\ Owner \in [Channel -> Account]
    /\ Gate \in [Channel -> Gateway]
    /\ Nil \notin Channel
    /\ Faults \subseteq FaultKinds

VARIABLES
    conn,     \* gateway: phase of the connection that got this id
    inbox,    \* what the gateway has written to the connection
    down,     \* packets pushed by login services, not yet at the gateway
    login,    \* where DoSysLogin stands for this channel
    old,      \* DoSysLogin's local: the location it found
    logout,   \* where DoSysLogout stands for this channel
    talk,     \* where the handling of the client's latest packet stands
    loc,      \* redis: login:loc:<account>
    sn,       \* redis: the channels that have a login:sn:<channel> key
    lapsed    \* history: the channels one of whose two keys expired

gateVars   == <<conn, inbox>>
loginVars  == <<login, old>>
redisVars  == <<loc, sn, lapsed>>
vars == <<conn, inbox, down, login, old, logout, talk, loc, sn, lapsed>>

NoteType == {"LoginOK", "LoginFail", "Kickout", "LogoutOK", "LogoutFail"}
Note(type, c) == [type |-> type, to |-> c]

(***************************************************************************)
(* Program counters.  DoSysLogin ends "done" (success answered), "failed"  *)
(* (nothing written), "partial" (the location written, not the session) or *)
(* "unacked" (both written, success not answered); DoSysLogout likewise,   *)
(* with "nosession" when Receive finds no session for the channel.         *)
(***************************************************************************)
ConnPhase == {"none", "accepted", "open", "closing", "closed"}

LoginEnd  == {"done", "failed", "partial", "unacked"}
LoginPc   == {"idle", "lookup", "kick", "setLoc", "setSn", "resp"} \cup LoginEnd

LogoutEnd == {"done", "failed", "partial", "unacked", "nosession"}
LogoutPc  == {"idle", "lookup", "delLoc", "delSn", "resp"} \cup LogoutEnd

TalkPc == {"idle", "lookup", "served", "notFound", "failed"}

TypeOK ==
    /\ conn \in [Channel -> ConnPhase]
    /\ inbox \in [Channel -> SUBSET NoteType]
    /\ down \subseteq [type : NoteType, to : Channel]
    /\ login \in [Channel -> LoginPc]
    /\ old \in [Channel -> Channel \cup {Nil}]
    /\ logout \in [Channel -> LogoutPc]
    /\ talk \in [Channel -> TalkPc]
    /\ loc \in [Account -> Channel \cup {Nil}]
    /\ sn \subseteq Channel
    /\ lapsed \subseteq Channel

Init ==
    /\ conn = [c \in Channel |-> "none"]
    /\ inbox = [c \in Channel |-> {}]
    /\ down = {}
    /\ login = [c \in Channel |-> "idle"]
    /\ old = [c \in Channel |-> Nil]
    /\ logout = [c \in Channel |-> "idle"]
    /\ talk = [c \in Channel |-> "idle"]
    /\ loc = [a \in Account |-> Nil]
    /\ sn = {}
    /\ lapsed = {}

-----------------------------------------------------------------------------
(* The gateway *)

\* Handler.Accept: the token is good, the id is generated, SignIn is
\* forwarded to a login service.  When Forward fails the connection is closed
\* and nothing else happens.
Accept(c) ==
    /\ conn[c] = "none"
    /\ \/ /\ conn' = [conn EXCEPT ![c] = "accepted"]
          /\ login' = [login EXCEPT ![c] = "lookup"]
       \/ /\ "forward" \in Faults
          /\ conn' = [conn EXCEPT ![c] = "closed"]
          /\ UNCHANGED login
    /\ UNCHANGED <<inbox, down, old, logout, talk, redisVars>>

\* Only now, after Accept has returned, is the channel added to the
\* ChannelMap that Push looks into.  (The "channelId is repeated" branch needs
\* an id used twice.)
AddChannel(c) ==
    /\ conn[c] = "accepted"
    /\ conn' = [conn EXCEPT ![c] = "open"]
    /\ UNCHANGED <<inbox, down, loginVars, logout, talk, redisVars>>

\* Readloop returns: the client closed or timed out.  The channel leaves the
\* ChannelMap.
ReadloopEnd(c) ==
    /\ conn[c] = "open"
    /\ conn' = [conn EXCEPT ![c] = "closing"]
    /\ UNCHANGED <<inbox, down, loginVars, logout, talk, redisVars>>

\* A faulty variant, to show which property depends on this step: no SignOut.
DisconnectSilently(c) ==
    /\ conn[c] = "closing"
    /\ conn' = [conn EXCEPT ![c] = "closed"]
    /\ UNCHANGED <<inbox, down, loginVars, logout, talk, redisVars>>

\* Handler.Disconnect forwards SignOut; an error of Forward is only logged.
Disconnect(c) ==
    /\ conn[c] = "closing"
    /\ conn' = [conn EXCEPT ![c] = "closed"]
    /\ \/ logout' = [logout EXCEPT ![c] = "lookup"]
       \/ "forward" \in Faults /\ UNCHANGED logout
    /\ UNCHANGED <<inbox, down, loginVars, talk, redisVars>>

\* The gateway process ends (a crash, or container.shutdown, which closes the
\* write channels and returns): its connections go without any SignOut.  Ids
\* not handed out yet are those of the next process under the same name.
GatewayStop(g) ==
    LET live == {c \in Channel : Gate[c] = g /\ conn[c] \notin {"none", "closed"}}
    IN  /\ "stop" \in Faults
        /\ live # {}
        /\ conn' = [c \in Channel |-> IF c \in live THEN "closed" ELSE conn[c]]
        /\ UNCHANGED <<inbox, down, loginVars, logout, talk, redisVars>>

\* pushMessage and Server.Push: a packet for a channel that is not in the
\* ChannelMap is dropped.
Deliver(n) ==
    /\ n \in down
    /\ down' = down \ {n}
    /\ inbox' = IF conn[n.to] = "open"
                THEN [inbox EXCEPT ![n.to] = @ \cup {n.type}]
                ELSE inbox
    /\ UNCHANGED <<conn, loginVars, logout, talk, redisVars>>

\* A client that has been told its login succeeded sends a packet.
SendPacket(c) ==
    /\ conn[c] = "open"
    /\ "LoginOK" \in inbox[c]
    /\ talk[c] # "lookup"
    /\ talk' = [talk EXCEPT ![c] = "lookup"]
    /\ UNCHANGED <<gateVars, down, loginVars, logout, redisVars>>

-----------------------------------------------------------------------------
(* The login service: DoSysLogin *)

\* Every redis error ends the handler with an error answer (RespWithError).
LoginError(c, pc) ==
    /\ login' = [login EXCEPT ![c] = pc]
    /\ down' = down \cup {Note("LoginFail", c)}

\* A faulty variant, to show which property depends on this step: the error
\* ErrSessionNil is not told from an answer.
LoginLookupKicksNobody(c) ==
    /\ login[c] = "lookup"
    /\ old' = [old EXCEPT ![c] = loc[Owner[c]]]
    /\ login' = [login EXCEPT ![c] = "kick"]
    /\ UNCHANGED <<gateVars, down, logout, talk, redisVars>>

\* ctx.GetLocation(account): is the user logged in elsewhere?
LoginLookup(c) ==
    /\ login[c] = "lookup"
    /\ \/ /\ old' = [old EXCEPT ![c] = loc[Owner[c]]]
          /\ login' = [login EXCEPT
                         ![c] = IF loc[Owner[c]] = Nil THEN "setLoc" ELSE "kick"]
          /\ UNCHANGED down
       \/ /\ "redis" \in Faults
          /\ LoginError(c, "failed")
          /\ UNCHANGED old
    /\ UNCHANGED <<gateVars, logout, talk, redisVars>>

\* A faulty variant, to show which property depends on this step: the notice is
\* answered to the session that logs in.
LoginKickSelf(c) ==
    /\ login[c] = "kick"
    /\ login' = [login EXCEPT ![c] = "setLoc"]
    /\ down' = down \cup {Note("Kickout", c)}
    /\ UNCHANGED <<gateVars, old, logout, talk, redisVars>>

\* ctx.Dispatch(KickoutNotify, old), which skips the session's own channel;
\* its error is ignored.
LoginKick(c) ==
    /\ login[c] = "kick"
    /\ login' = [login EXCEPT ![c] = "setLoc"]
    /\ down' = IF old[c] = c THEN down ELSE down \cup {Note("Kickout", old[c])}
    /\ UNCHANGED <<gateVars, old, logout, talk, redisVars>>

\* A faulty variant, to show which property depends on this step: an error of the
\* first SET is not returned.
LoginSetLocationUnchecked(c) ==
    /\ login[c] = "setLoc"
    /\ \/ loc' = [loc EXCEPT ![Owner[c]] = c]
       \/ "redis" \in Faults /\ UNCHANGED loc
    /\ login' = [login EXCEPT ![c] = "setSn"]
    /\ UNCHANGED <<gateVars, down, old, logout, talk, sn, lapsed>>

\* RedisStorage.Add, first command.  A failed SET may have taken effect.
LoginSetLocation(c) ==
    /\ login[c] = "setLoc"
    /\ \/ /\ loc' = [loc EXCEPT ![Owner[c]] = c]
          /\ login' = [login EXCEPT ![c] = "setSn"]
          /\ UNCHANGED down
       \/ /\ "redis" \in Faults
          /\ \/ loc' = [loc EXCEPT ![Owner[c]] = c] /\ LoginError(c, "partial")
             \/ UNCHANGED loc /\ LoginError(c, "failed")
    /\ UNCHANGED <<gateVars, old, logout, talk, sn, lapsed>>

\* A faulty variant, to show which property depends on this step: an error of the
\* second SET is not returned.
LoginSetSessionUnchecked(c) ==
    /\ login[c] = "setSn"
    /\ \/ sn' = sn \cup {c}
       \/ "redis" \in Faults /\ UNCHANGED sn
    /\ login' = [login EXCEPT ![c] = "resp"]
    /\ UNCHANGED <<gateVars, down, old, logout, talk, loc, lapsed>>

\* RedisStorage.Add, second command.
LoginSetSession(c) ==
    /\ login[c] = "setSn"
    /\ \/ /\ sn' = sn \cup {c}
          /\ login' = [login EXCEPT ![c] = "resp"]
          /\ UNCHANGED down
       \/ /\ "redis" \in Faults
          /\ \/ sn' = sn \cup {c} /\ LoginError(c, "unacked")
             \/ UNCHANGED sn /\ LoginError(c, "partial")
    /\ UNCHANGED <<gateVars, old, logout, talk, loc, lapsed>>

\* ctx.Resp(Status_Success, LoginResp).
LoginRespond(c) ==
    /\ login[c] = "resp"
    /\ login' = [login EXCEPT ![c] = "done"]
    /\ down' = down \cup {Note("LoginOK", c)}
    /\ UNCHANGED <<gateVars, old, logout, talk, redisVars>>

\* The process running the handler dies, or the packet was lost on its way:
\* no answer.  (tcp.Server.Push itself kills the process when the gateway is
\* not connected: it calls ID() on the nil channel.)
LoginCrash(c) ==
    /\ "crash" \in Faults
    /\ \/ login[c] \in {"lookup", "kick", "setLoc"}
          /\ login' = [login EXCEPT ![c] = "failed"]
       \/ login[c] = "setSn" /\ login' = [login EXCEPT ![c] = "partial"]
       \/ login[c] = "resp" /\ login' = [login EXCEPT ![c] = "unacked"]
    /\ UNCHANGED <<gateVars, down, old, logout, talk, redisVars>>

-----------------------------------------------------------------------------
(* The login service: DoSysLogout, and any other packet *)

LogoutError(c, pc) ==
    /\ logout' = [logout EXCEPT ![c] = pc]
    /\ down' = down \cup {Note("LogoutFail", c)}

\* A faulty variant, to show which property depends on this step: the handler
\* runs although no session was found.
LogoutReceiveUnchecked(c) ==
    /\ logout[c] = "lookup"
    /\ logout' = [logout EXCEPT ![c] = "delLoc"]
    /\ UNCHANGED <<gateVars, down, loginVars, talk, redisVars>>

\* ServHandler.Receive: cache.Get(channel).  RespErr answers on the gateway's
\* own channel without dest_server; the gateway's pushMessage refuses such a
\* packet, so nothing reaches the client.
LogoutReceive(c) ==
    /\ logout[c] = "lookup"
    /\ \/ logout' = [logout EXCEPT
                       ![c] = IF c \in sn THEN "delLoc" ELSE "nosession"]
       \/ "redis" \in Faults /\ logout' = [logout EXCEPT ![c] = "failed"]
    /\ UNCHANGED <<gateVars, down, loginVars, talk, redisVars>>

\* A faulty variant, to show which property depends on this step: the location is
\* left to expire.
LogoutKeepLocation(c) ==
    /\ logout[c] = "delLoc"
    /\ logout' = [logout EXCEPT ![c] = "delSn"]
    /\ UNCHANGED <<gateVars, down, loginVars, talk, redisVars>>

\* RedisStorage.Delete, first command: the location of the account, whatever
\* channel it names.
LogoutDelLocation(c) ==
    /\ logout[c] = "delLoc"
    /\ \/ /\ loc' = [loc EXCEPT ![Owner[c]] = Nil]
          /\ logout' = [logout EXCEPT ![c] = "delSn"]
          /\ UNCHANGED down
       \/ /\ "redis" \in Faults
          /\ \/ loc' = [loc EXCEPT ![Owner[c]] = Nil] /\ LogoutError(c, "partial")
             \/ UNCHANGED loc /\ LogoutError(c, "failed")
    /\ UNCHANGED <<gateVars, loginVars, talk, sn, lapsed>>

\* RedisStorage.Delete, second command.
LogoutDelSession(c) ==
    /\ logout[c] = "delSn"
    /\ \/ /\ sn' = sn \ {c}
          /\ logout' = [logout EXCEPT ![c] = "resp"]
          /\ UNCHANGED down
       \/ /\ "redis" \in Faults
          /\ \/ sn' = sn \ {c} /\ LogoutError(c, "unacked")
             \/ UNCHANGED sn /\ LogoutError(c, "partial")
    /\ UNCHANGED <<gateVars, loginVars, talk, loc, lapsed>>

LogoutRespond(c) ==
    /\ logout[c] = "resp"
    /\ logout' = [logout EXCEPT ![c] = "done"]
    /\ down' = down \cup {Note("LogoutOK", c)}
    /\ UNCHANGED <<gateVars, loginVars, talk, redisVars>>

LogoutCrash(c) ==
    /\ "crash" \in Faults
    /\ \/ logout[c] \in {"lookup", "delLoc"}
          /\ logout' = [logout EXCEPT ![c] = "failed"]
       \/ logout[c] = "delSn" /\ logout' = [logout EXCEPT ![c] = "partial"]
       \/ logout[c] = "resp" /\ logout' = [logout EXCEPT ![c] = "unacked"]
    /\ UNCHANGED <<gateVars, down, loginVars, talk, redisVars>>

\* Any command but SignIn: served when the session of its channel is found.
TalkReceive(c) ==
    /\ talk[c] = "lookup"
    /\ \/ talk' = [talk EXCEPT ![c] = IF c \in sn THEN "served" ELSE "notFound"]
       \/ /\ Faults \cap {"redis", "crash"} # {}
          /\ talk' = [talk EXCEPT ![c] = "failed"]
    /\ UNCHANGED <<gateVars, down, loginVars, logout, redisVars>>

-----------------------------------------------------------------------------
(* Redis: keys live LocationExpired (48 hours) and nothing renews them.    *)
(* A handler takes seconds, and Add writes the location before the         *)
(* session, so a location outlives neither its login nor its session.      *)

ExpireLocation(a) ==
    /\ "expiry" \in Faults
    /\ loc[a] # Nil
    /\ login[loc[a]] \in LoginEnd
    /\ loc' = [loc EXCEPT ![a] = Nil]
    /\ lapsed' = lapsed \cup {loc[a]}
    /\ UNCHANGED <<gateVars, down, loginVars, logout, talk, sn>>

ExpireSession(c) ==
    /\ "expiry" \in Faults
    /\ c \in sn
    /\ loc[Owner[c]] # c
    /\ login[c] \in LoginEnd
    /\ sn' = sn \ {c}
    /\ lapsed' = lapsed \cup {c}
    /\ UNCHANGED <<gateVars, down, loginVars, logout, talk, loc>>

-----------------------------------------------------------------------------
GatewayStep(c) ==
    \/ Accept(c) \/ AddChannel(c) \/ ReadloopEnd(c) \/ Disconnect(c)
    \/ SendPacket(c)

LoginStep(c) ==
    \/ LoginLookup(c) \/ LoginKick(c) \/ LoginSetLocation(c)
    \/ LoginSetSession(c) \/ LoginRespond(c)

LogoutStep(c) ==
    \/ LogoutReceive(c) \/ LogoutDelLocation(c) \/ LogoutDelSession(c)
    \/ LogoutRespond(c)

Next ==
    \/ \E c \in Channel :
          \/ GatewayStep(c)
          \/ LoginStep(c) \/ LoginCrash(c)
          \/ LogoutStep(c) \/ LogoutCrash(c)
          \/ TalkReceive(c)
          \/ ExpireSession(c)
    \/ \E n \in down : Deliver(n)
    \/ \E g \in Gateway : GatewayStop(g)
    \/ \E a \in Account : ExpireLocation(a)

Spec == Init /\ [][Next]_vars

\* Goroutines run until they end, redis answers or times out, and a gateway
\* reads its links; users owe nothing.
Fairness ==
    /\ \A c \in Channel :
          /\ WF_vars(AddChannel(c))
          /\ WF_vars(Disconnect(c))
          /\ WF_vars(LoginStep(c))
          /\ WF_vars(LogoutStep(c))
          /\ WF_vars(TalkReceive(c))
    /\ WF_vars(\E n \in down : Deliver(n))

FairSpec == Spec /\ Fairness

-----------------------------------------------------------------------------
(* Properties *)

\* DoSysLogin has written the location; has written the session.
Located == {"setSn", "partial", "resp", "done", "unacked"}
Stored  == {"resp", "done", "unacked"}

\* DoSysLogout has deleted the location; has deleted both keys.
Unlocated == {"delSn", "partial", "resp", "done", "unacked"}
Erased    == {"resp", "done", "unacked"}

Rival(c, d) == c # d /\ Owner[c] = Owner[d]

\* A location that redis holds leads to a session: GetLocation never names a
\* channel of another account, nor a channel that is not in the session store,
\* except between the two writes of RedisStorage.Add or when the second one
\* failed.  Delete and expiry remove the two keys in the order that keeps this.
LocationBacked ==
    \A a \in Account : loc[a] # Nil =>
        /\ Owner[loc[a]] = a
        /\ loc[a] \in sn \/ login[loc[a]] \in {"setSn", "partial"}

\* What DoSysLogout deleted stays deleted, whatever logins and logouts of the
\* same account run beside it: once RedisStorage.Delete has run for a channel,
\* the account's location does not name that channel, and the session key is
\* gone after the second command.
LoggedOutIsForgotten ==
    \A c \in Channel :
        /\ logout[c] \in Unlocated => loc[Owner[c]] # c
        /\ logout[c] \in Erased => c \notin sn

\* KickoutNotify reaches only a session that another login of the same account
\* found in redis and that had been written there: nobody is told to leave
\* because of a login of another account, nor by the login of his own session.
KickoutJustified ==
    \A d \in Channel :
        (Note("Kickout", d) \in down \/ "Kickout" \in inbox[d]) =>
            /\ login[d] \in Located
            /\ \E c \in Channel : Rival(c, d) /\ old[c] = d
                                 /\ login[c] \notin {"idle", "lookup", "kick"}

\* A client that was told its login succeeded and is still connected has a
\* session until the key expires: cache.Get in ServHandler.Receive never turns
\* its packets away, whatever other devices of the account do and whatever
\* commands, handlers and gateways fail.
EstablishedSessionFound ==
    \A c \in Channel :
        talk[c] = "notFound" => conn[c] \in {"closing", "closed"} \/ c \in lapsed

\* The location of a connected, logged-in session is lost only by expiring or to
\* another device of the same account.
SoleDeviceReachable ==
    \A c \in Channel :
        conn[c] = "open" /\ login[c] = "done" =>
            \/ loc[Owner[c]] = c
            \/ c \in lapsed
            \/ \E d \in Channel : Rival(c, d) /\ login[d] \in Located

\* Without failures a session outlives its connection's SignOut in one way
\* only: the goroutine of SignOut ran before the one of SignIn and found no
\* session to delete.
LeftoverOnlyByOvertaking ==
    Faults = {} =>
        \A c \in Channel :
            c \in sn /\ logout[c] \in LogoutEnd => logout[c] = "nosession"

\* The registry that Session implements: a channel in the session store is
\* "leaving" once its location was deleted; one that is not there has yet to be
\* stored, or was.
phase == [c \in Channel |->
    IF c \in sn
    THEN IF logout[c] \in {"delSn", "partial"} THEN "leaving" ELSE "active"
    ELSE IF login[c] \in {"setSn", "partial"} THEN "bound"
    ELSE IF login[c] \in Stored THEN "gone"
    ELSE "new"]

Registry == INSTANCE SessionRegistry WITH where <- loc

\* RedisStorage.Add and Delete, command by command, with logins, logouts and
\* expiry interleaved and with commands and handlers failing half way, move
\* sessions and locations only as the registry allows.
ImplementsRegistry == Registry!Spec

\* The connections that Deliver finds.
reach == {c \in Channel : conn[c] = "open"}

Life == INSTANCE Connections WITH
    Conn <- Channel, Process <- Gateway, At <- Gate, life <- conn

\* The gateway's connections, failures included, live as a server promises.
UsesConnections == Life!Spec

\* Without failures a session that was answered before its connection ended is
\* removed for good, with its location: Disconnect forwards SignOut and
\* DoSysLogout completes.
SignOutCompletes ==
    \A c \in Channel :
        (conn[c] = "closing" /\ login[c] = "done")
            ~> [](c \notin sn /\ loc[Owner[c]] # c)

\* login_handler.go:48, "notify that the login succeeded": the answer that a
\* login service sends is delivered as long as the connection has not ended.
LoginSuccessNotified ==
    [][\A c \in Channel :
          Note("LoginOK", c) \in down /\ Note("LoginOK", c) \notin down' =>
              "LoginOK" \in inbox'[c] \/ conn[c] \in {"closing", "closed"}]_vars

\* login_handler.go:32, "check whether the user is logged in elsewhere": when
\* the lookup finds nobody, no other device of the account is connected with an
\* answered login.
OtherLoginDetected ==
    [][\A c \in Channel :
          login[c] = "lookup" /\ login'[c] = "setLoc" =>
              ~\E d \in Channel : Rival(c, d) /\ conn[d] = "open" /\ login[d] = "done"]_vars

=============================================================================
