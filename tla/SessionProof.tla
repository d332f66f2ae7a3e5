---------------------------- MODULE SessionProof ----------------------------
(***************************************************************************)
(* Proofs about Session, for any accounts, gateways, channel ids and any  *)
(* set of faults.                                                          *)
(***************************************************************************)
EXTENDS Storage, WireProof, TLAPS

(* The inductive invariant, in parts *)

\* Only Accept forwards a SignIn.
Fresh == \A c \in Channel : conn[c] = "none" => login[c] = "idle"

\* The store: sessions were logged in, and only they are logged out.
SessionBacked ==
    \A c \in Channel :
        /\ c \in sn => login[c] \in Stored
        /\ logout[c] \in Unlocated \cup {"delLoc"} => login[c] \in Stored

\* What DoSysLogin found is a session of the account that had been located;
\* Dispatch is called only when there is one.
OldIsLocated ==
    \A c \in Channel :
        /\ login[c] = "kick" => old[c] # Nil
        /\ old[c] # Nil => Owner[old[c]] = Owner[c] /\ login[old[c]] \in Located

\* The gateway: a client that heard of its login has one, only such a client
\* sends packets, and SignOut follows the end of the connection.
GateOrder ==
    \A c \in Channel :
        /\ Note("LoginOK", c) \in down \/ "LoginOK" \in inbox[c] => login[c] = "done"
        /\ talk[c] # "idle" => login[c] = "done"
        /\ talk[c] # "idle" => conn[c] \in {"open", "closing", "closed"}
        /\ logout[c] # "idle" => conn[c] = "closed"

\* As long as its keys have not expired, only logouts remove the keys of a
\* session and only rivals replace them.
KeysKept ==
    \A c \in Channel \ lapsed :
        /\ login[c] \in Stored /\ c \notin sn => logout[c] \in Erased
        /\ login[c] \in Located =>
              \/ loc[Owner[c]] = c
              \/ logout[c] \in Unlocated
              \/ \E d \in Channel : Rival(c, d) /\ login[d] \in Located

\* Without faults every logout that found a session removed it.
NoHalfLogout ==
    Faults = {} => \A c \in Channel : logout[c] \notin {"failed", "partial", "unacked"}

IInv ==
    /\ TypeOK /\ Fresh
    /\ SessionBacked /\ LocationBacked /\ LoggedOutIsForgotten
    /\ OldIsLocated /\ KickoutJustified
    /\ GateOrder /\ EstablishedSessionFound
    /\ KeysKept /\ NoHalfLogout
-----------------------------------------------------------------------------
(* Every step keeps every part. *)

\* The initial state, with no connection and an empty redis, satisfies every part
\* of the invariant.
LEMMA InvInit == Init => IInv
  BY SessionAssumption
  DEF Init, IInv, TypeOK, Fresh, SessionBacked, LocationBacked, LoggedOutIsForgotten, OldIsLocated,
      KickoutJustified, GateOrder, EstablishedSessionFound, KeysKept, NoHalfLogout, Located,
      Stored, Unlocated, Erased, Note, NoteType, ConnPhase, LoginPc, LogoutPc, TalkPc

\* An answer that a handler pushes is determined by its type and its channel.
LEMMA NoteEq ==
    \A t, u, c, d : Note(t, c) = Note(u, d) <=> t = u /\ c = d
  BY DEF Note

\* Every packet on its way down to a gateway is such an answer.
LEMMA NoteOf ==
    ASSUME TypeOK, NEW n \in down PROVE n = Note(n.type, n.to)
  BY DEF TypeOK, Note

\* Every step keeps the types.  That LoginKick dispatches to a location it has
\* found, never to Nil, is why OldIsLocated is needed.
LEMMA TypeNext ==
    ASSUME TypeOK, OldIsLocated, [Next]_vars PROVE TypeOK'
<1> USE SessionAssumption DEF TypeOK, OldIsLocated, gateVars, loginVars, redisVars,
        ConnPhase, LoginPc, LoginEnd, LogoutPc, LogoutEnd, TalkPc
<1>1. ASSUME NEW c \in Channel, Accept(c) PROVE TypeOK'
  BY <1>1 DEF Accept
<1>2. ASSUME NEW c \in Channel, AddChannel(c) PROVE TypeOK'
  BY <1>2 DEF AddChannel
<1>3. ASSUME NEW c \in Channel, ReadloopEnd(c) PROVE TypeOK'
  BY <1>3 DEF ReadloopEnd
<1>4. ASSUME NEW c \in Channel, Disconnect(c) PROVE TypeOK'
  BY <1>4 DEF Disconnect
<1>5. ASSUME NEW c \in Channel, SendPacket(c) PROVE TypeOK'
  BY <1>5 DEF SendPacket
<1>6. ASSUME NEW c \in Channel, LoginLookup(c) PROVE TypeOK'
  BY <1>6 DEF LoginLookup, LoginError, Note, NoteType
<1>7. ASSUME NEW c \in Channel, LoginKick(c) PROVE TypeOK'
  BY <1>7 DEF LoginKick, Note, NoteType
<1>8. ASSUME NEW c \in Channel, LoginSetLocation(c) PROVE TypeOK'
  BY <1>8 DEF LoginSetLocation, LoginError, Note, NoteType
<1>9. ASSUME NEW c \in Channel, LoginSetSession(c) PROVE TypeOK'
  BY <1>9 DEF LoginSetSession, LoginError, Note, NoteType
<1>10. ASSUME NEW c \in Channel, LoginRespond(c) PROVE TypeOK'
  BY <1>10 DEF LoginRespond, Note, NoteType
<1>11. ASSUME NEW c \in Channel, LoginCrash(c) PROVE TypeOK'
  BY <1>11 DEF LoginCrash
<1>12. ASSUME NEW c \in Channel, LogoutReceive(c) PROVE TypeOK'
  BY <1>12 DEF LogoutReceive
<1>13. ASSUME NEW c \in Channel, LogoutDelLocation(c) PROVE TypeOK'
  BY <1>13 DEF LogoutDelLocation, LogoutError, Note, NoteType
<1>14. ASSUME NEW c \in Channel, LogoutDelSession(c) PROVE TypeOK'
  BY <1>14 DEF LogoutDelSession, LogoutError, Note, NoteType
<1>15. ASSUME NEW c \in Channel, LogoutRespond(c) PROVE TypeOK'
  BY <1>15 DEF LogoutRespond, Note, NoteType
<1>16. ASSUME NEW c \in Channel, LogoutCrash(c) PROVE TypeOK'
  BY <1>16 DEF LogoutCrash
<1>17. ASSUME NEW c \in Channel, TalkReceive(c) PROVE TypeOK'
  BY <1>17 DEF TalkReceive
<1>18. ASSUME NEW c \in Channel, ExpireSession(c) PROVE TypeOK'
  BY <1>18 DEF ExpireSession
<1>19. ASSUME NEW n \in down, Deliver(n) PROVE TypeOK'
  BY <1>19 DEF Deliver
<1>20. ASSUME NEW g \in Gateway, GatewayStop(g) PROVE TypeOK'
  BY <1>20 DEF GatewayStop
<1>21. ASSUME NEW a \in Account, ExpireLocation(a) PROVE TypeOK'
  BY <1>21 DEF ExpireLocation
<1>22. CASE UNCHANGED vars
  BY <1>22 DEF vars
<1> QED
  BY <1>1, <1>2, <1>3, <1>4, <1>5, <1>6, <1>7, <1>8, <1>9, <1>10, <1>11, <1>12,
     <1>13, <1>14, <1>15, <1>16, <1>17, <1>18, <1>19, <1>20, <1>21, <1>22
  DEF Next, GatewayStep, LoginStep, LogoutStep

\* Every step keeps Fresh: a login starts with Accept and at no other time.
LEMMA FreshNext ==
    ASSUME TypeOK, Fresh, [Next]_vars PROVE Fresh'
<1> USE SessionAssumption DEF TypeOK, Fresh, gateVars, loginVars, redisVars
<1>1. ASSUME NEW c \in Channel, Accept(c) PROVE Fresh'
  BY <1>1 DEF Accept
<1>2. ASSUME NEW c \in Channel, AddChannel(c) PROVE Fresh'
  BY <1>2 DEF AddChannel
<1>3. ASSUME NEW c \in Channel, ReadloopEnd(c) PROVE Fresh'
  BY <1>3 DEF ReadloopEnd
<1>4. ASSUME NEW c \in Channel, Disconnect(c) PROVE Fresh'
  BY <1>4 DEF Disconnect
<1>5. ASSUME NEW c \in Channel, SendPacket(c) PROVE Fresh'
  BY <1>5 DEF SendPacket
<1>6. ASSUME NEW c \in Channel, LoginLookup(c) PROVE Fresh'
  BY <1>6 DEF LoginLookup, LoginError
<1>7. ASSUME NEW c \in Channel, LoginKick(c) PROVE Fresh'
  BY <1>7 DEF LoginKick
<1>8. ASSUME NEW c \in Channel, LoginSetLocation(c) PROVE Fresh'
  BY <1>8 DEF LoginSetLocation, LoginError
<1>9. ASSUME NEW c \in Channel, LoginSetSession(c) PROVE Fresh'
  BY <1>9 DEF LoginSetSession, LoginError
<1>10. ASSUME NEW c \in Channel, LoginRespond(c) PROVE Fresh'
  BY <1>10 DEF LoginRespond
<1>11. ASSUME NEW c \in Channel, LoginCrash(c) PROVE Fresh'
  BY <1>11 DEF LoginCrash
<1>12. ASSUME NEW c \in Channel, LogoutReceive(c) PROVE Fresh'
  BY <1>12 DEF LogoutReceive
<1>13. ASSUME NEW c \in Channel, LogoutDelLocation(c) PROVE Fresh'
  BY <1>13 DEF LogoutDelLocation, LogoutError
<1>14. ASSUME NEW c \in Channel, LogoutDelSession(c) PROVE Fresh'
  BY <1>14 DEF LogoutDelSession, LogoutError
<1>15. ASSUME NEW c \in Channel, LogoutRespond(c) PROVE Fresh'
  BY <1>15 DEF LogoutRespond
<1>16. ASSUME NEW c \in Channel, LogoutCrash(c) PROVE Fresh'
  BY <1>16 DEF LogoutCrash
<1>17. ASSUME NEW c \in Channel, TalkReceive(c) PROVE Fresh'
  BY <1>17 DEF TalkReceive
<1>18. ASSUME NEW c \in Channel, ExpireSession(c) PROVE Fresh'
  BY <1>18 DEF ExpireSession
<1>19. ASSUME NEW n \in down, Deliver(n) PROVE Fresh'
  BY <1>19 DEF Deliver
<1>20. ASSUME NEW g \in Gateway, GatewayStop(g) PROVE Fresh'
  BY <1>20 DEF GatewayStop
<1>21. ASSUME NEW a \in Account, ExpireLocation(a) PROVE Fresh'
  BY <1>21 DEF ExpireLocation
<1>22. CASE UNCHANGED vars
  BY <1>22 DEF vars
<1> QED
  BY <1>1, <1>2, <1>3, <1>4, <1>5, <1>6, <1>7, <1>8, <1>9, <1>10, <1>11, <1>12,
     <1>13, <1>14, <1>15, <1>16, <1>17, <1>18, <1>19, <1>20, <1>21, <1>22
  DEF Next, GatewayStep, LoginStep, LogoutStep

\* Every step keeps SessionBacked: Add comes before its session, and DoSysLogout
\* runs only for a channel whose session cache.Get has found.
LEMMA SessionBackedNext ==
    ASSUME TypeOK, Fresh, SessionBacked, [Next]_vars PROVE SessionBacked'
<1> USE SessionAssumption DEF TypeOK, Fresh, SessionBacked, Stored, Unlocated,
        gateVars, loginVars, redisVars
<1>1. ASSUME NEW c \in Channel, Accept(c) PROVE SessionBacked'
  BY <1>1 DEF Accept
<1>2. ASSUME NEW c \in Channel, AddChannel(c) PROVE SessionBacked'
  BY <1>2 DEF AddChannel
<1>3. ASSUME NEW c \in Channel, ReadloopEnd(c) PROVE SessionBacked'
  BY <1>3 DEF ReadloopEnd
<1>4. ASSUME NEW c \in Channel, Disconnect(c) PROVE SessionBacked'
  BY <1>4 DEF Disconnect
<1>5. ASSUME NEW c \in Channel, SendPacket(c) PROVE SessionBacked'
  BY <1>5 DEF SendPacket
<1>6. ASSUME NEW c \in Channel, LoginLookup(c) PROVE SessionBacked'
  BY <1>6 DEF LoginLookup, LoginError
<1>7. ASSUME NEW c \in Channel, LoginKick(c) PROVE SessionBacked'
  BY <1>7 DEF LoginKick
<1>8. ASSUME NEW c \in Channel, LoginSetLocation(c) PROVE SessionBacked'
  BY <1>8 DEF LoginSetLocation, LoginError
<1>9. ASSUME NEW c \in Channel, LoginSetSession(c) PROVE SessionBacked'
  BY <1>9 DEF LoginSetSession, LoginError
<1>10. ASSUME NEW c \in Channel, LoginRespond(c) PROVE SessionBacked'
  BY <1>10 DEF LoginRespond
<1>11. ASSUME NEW c \in Channel, LoginCrash(c) PROVE SessionBacked'
  BY <1>11 DEF LoginCrash
<1>12. ASSUME NEW c \in Channel, LogoutReceive(c) PROVE SessionBacked'
  BY <1>12 DEF LogoutReceive
<1>13. ASSUME NEW c \in Channel, LogoutDelLocation(c) PROVE SessionBacked'
  BY <1>13 DEF LogoutDelLocation, LogoutError
<1>14. ASSUME NEW c \in Channel, LogoutDelSession(c) PROVE SessionBacked'
  BY <1>14 DEF LogoutDelSession, LogoutError
<1>15. ASSUME NEW c \in Channel, LogoutRespond(c) PROVE SessionBacked'
  BY <1>15 DEF LogoutRespond
<1>16. ASSUME NEW c \in Channel, LogoutCrash(c) PROVE SessionBacked'
  BY <1>16 DEF LogoutCrash
<1>17. ASSUME NEW c \in Channel, TalkReceive(c) PROVE SessionBacked'
  BY <1>17 DEF TalkReceive
<1>18. ASSUME NEW c \in Channel, ExpireSession(c) PROVE SessionBacked'
  BY <1>18 DEF ExpireSession
<1>19. ASSUME NEW n \in down, Deliver(n) PROVE SessionBacked'
  BY <1>19 DEF Deliver
<1>20. ASSUME NEW g \in Gateway, GatewayStop(g) PROVE SessionBacked'
  BY <1>20 DEF GatewayStop
<1>21. ASSUME NEW a \in Account, ExpireLocation(a) PROVE SessionBacked'
  BY <1>21 DEF ExpireLocation
<1>22. CASE UNCHANGED vars
  BY <1>22 DEF vars
<1> QED
  BY <1>1, <1>2, <1>3, <1>4, <1>5, <1>6, <1>7, <1>8, <1>9, <1>10, <1>11, <1>12,
     <1>13, <1>14, <1>15, <1>16, <1>17, <1>18, <1>19, <1>20, <1>21, <1>22
  DEF Next, GatewayStep, LoginStep, LogoutStep

\* Every step keeps LocationBacked: Add writes the location first and Delete
\* removes it first, so the location never outlives the session.
LEMMA LocationBackedNext ==
    ASSUME TypeOK, Fresh, SessionBacked, LoggedOutIsForgotten, LocationBacked, [Next]_vars PROVE LocationBacked'
<1> USE SessionAssumption DEF TypeOK, Fresh, LocationBacked, LoggedOutIsForgotten,
        Unlocated, gateVars, loginVars, redisVars
<1>1. ASSUME NEW c \in Channel, Accept(c) PROVE LocationBacked'
  BY <1>1 DEF Accept
<1>2. ASSUME NEW c \in Channel, AddChannel(c) PROVE LocationBacked'
  BY <1>2 DEF AddChannel
<1>3. ASSUME NEW c \in Channel, ReadloopEnd(c) PROVE LocationBacked'
  BY <1>3 DEF ReadloopEnd
<1>4. ASSUME NEW c \in Channel, Disconnect(c) PROVE LocationBacked'
  BY <1>4 DEF Disconnect
<1>5. ASSUME NEW c \in Channel, SendPacket(c) PROVE LocationBacked'
  BY <1>5 DEF SendPacket
<1>6. ASSUME NEW c \in Channel, LoginLookup(c) PROVE LocationBacked'
  BY <1>6 DEF LoginLookup, LoginError
<1>7. ASSUME NEW c \in Channel, LoginKick(c) PROVE LocationBacked'
  BY <1>7 DEF LoginKick
<1>8. ASSUME NEW c \in Channel, LoginSetLocation(c) PROVE LocationBacked'
  BY <1>8 DEF LoginSetLocation, LoginError
<1>9. ASSUME NEW c \in Channel, LoginSetSession(c) PROVE LocationBacked'
  BY <1>9 DEF LoginSetSession, LoginError
<1>10. ASSUME NEW c \in Channel, LoginRespond(c) PROVE LocationBacked'
  BY <1>10 DEF LoginRespond
<1>11. ASSUME NEW c \in Channel, LoginCrash(c) PROVE LocationBacked'
  BY <1>11 DEF LoginCrash
<1>12. ASSUME NEW c \in Channel, LogoutReceive(c) PROVE LocationBacked'
  BY <1>12 DEF LogoutReceive
<1>13. ASSUME NEW c \in Channel, LogoutDelLocation(c) PROVE LocationBacked'
  BY <1>13 DEF LogoutDelLocation, LogoutError
<1>14. ASSUME NEW c \in Channel, LogoutDelSession(c) PROVE LocationBacked'
  BY <1>14 DEF LogoutDelSession, LogoutError
<1>15. ASSUME NEW c \in Channel, LogoutRespond(c) PROVE LocationBacked'
  BY <1>15 DEF LogoutRespond
<1>16. ASSUME NEW c \in Channel, LogoutCrash(c) PROVE LocationBacked'
  BY <1>16 DEF LogoutCrash
<1>17. ASSUME NEW c \in Channel, TalkReceive(c) PROVE LocationBacked'
  BY <1>17 DEF TalkReceive
<1>18. ASSUME NEW c \in Channel, ExpireSession(c) PROVE LocationBacked'
  BY <1>18 DEF ExpireSession
<1>19. ASSUME NEW n \in down, Deliver(n) PROVE LocationBacked'
  BY <1>19 DEF Deliver
<1>20. ASSUME NEW g \in Gateway, GatewayStop(g) PROVE LocationBacked'
  BY <1>20 DEF GatewayStop
<1>21. ASSUME NEW a \in Account, ExpireLocation(a) PROVE LocationBacked'
  BY <1>21 DEF ExpireLocation
<1>22. CASE UNCHANGED vars
  BY <1>22 DEF vars
<1> QED
  BY <1>1, <1>2, <1>3, <1>4, <1>5, <1>6, <1>7, <1>8, <1>9, <1>10, <1>11, <1>12,
     <1>13, <1>14, <1>15, <1>16, <1>17, <1>18, <1>19, <1>20, <1>21, <1>22
  DEF Next, GatewayStep, LoginStep, LogoutStep

\* Every step keeps LoggedOutIsForgotten: DoSysLogin of a channel has written
\* both keys before DoSysLogout of that channel can delete them.
LEMMA LoggedOutNext ==
    ASSUME TypeOK, SessionBacked, LoggedOutIsForgotten, [Next]_vars PROVE LoggedOutIsForgotten'
<1> USE SessionAssumption DEF TypeOK, SessionBacked, LoggedOutIsForgotten, Stored,
        Unlocated, Erased, gateVars, loginVars, redisVars
<1>1. ASSUME NEW c \in Channel, Accept(c) PROVE LoggedOutIsForgotten'
  BY <1>1 DEF Accept
<1>2. ASSUME NEW c \in Channel, AddChannel(c) PROVE LoggedOutIsForgotten'
  BY <1>2 DEF AddChannel
<1>3. ASSUME NEW c \in Channel, ReadloopEnd(c) PROVE LoggedOutIsForgotten'
  BY <1>3 DEF ReadloopEnd
<1>4. ASSUME NEW c \in Channel, Disconnect(c) PROVE LoggedOutIsForgotten'
  BY <1>4 DEF Disconnect
<1>5. ASSUME NEW c \in Channel, SendPacket(c) PROVE LoggedOutIsForgotten'
  BY <1>5 DEF SendPacket
<1>6. ASSUME NEW c \in Channel, LoginLookup(c) PROVE LoggedOutIsForgotten'
  BY <1>6 DEF LoginLookup, LoginError
<1>7. ASSUME NEW c \in Channel, LoginKick(c) PROVE LoggedOutIsForgotten'
  BY <1>7 DEF LoginKick
<1>8. ASSUME NEW c \in Channel, LoginSetLocation(c) PROVE LoggedOutIsForgotten'
  BY <1>8 DEF LoginSetLocation, LoginError
<1>9. ASSUME NEW c \in Channel, LoginSetSession(c) PROVE LoggedOutIsForgotten'
  BY <1>9 DEF LoginSetSession, LoginError
<1>10. ASSUME NEW c \in Channel, LoginRespond(c) PROVE LoggedOutIsForgotten'
  BY <1>10 DEF LoginRespond
<1>11. ASSUME NEW c \in Channel, LoginCrash(c) PROVE LoggedOutIsForgotten'
  BY <1>11 DEF LoginCrash
<1>12. ASSUME NEW c \in Channel, LogoutReceive(c) PROVE LoggedOutIsForgotten'
  BY <1>12 DEF LogoutReceive
<1>13. ASSUME NEW c \in Channel, LogoutDelLocation(c) PROVE LoggedOutIsForgotten'
  BY <1>13 DEF LogoutDelLocation, LogoutError
<1>14. ASSUME NEW c \in Channel, LogoutDelSession(c) PROVE LoggedOutIsForgotten'
  BY <1>14 DEF LogoutDelSession, LogoutError
<1>15. ASSUME NEW c \in Channel, LogoutRespond(c) PROVE LoggedOutIsForgotten'
  BY <1>15 DEF LogoutRespond
<1>16. ASSUME NEW c \in Channel, LogoutCrash(c) PROVE LoggedOutIsForgotten'
  BY <1>16 DEF LogoutCrash
<1>17. ASSUME NEW c \in Channel, TalkReceive(c) PROVE LoggedOutIsForgotten'
  BY <1>17 DEF TalkReceive
<1>18. ASSUME NEW c \in Channel, ExpireSession(c) PROVE LoggedOutIsForgotten'
  BY <1>18 DEF ExpireSession
<1>19. ASSUME NEW n \in down, Deliver(n) PROVE LoggedOutIsForgotten'
  BY <1>19 DEF Deliver
<1>20. ASSUME NEW g \in Gateway, GatewayStop(g) PROVE LoggedOutIsForgotten'
  BY <1>20 DEF GatewayStop
<1>21. ASSUME NEW a \in Account, ExpireLocation(a) PROVE LoggedOutIsForgotten'
  BY <1>21 DEF ExpireLocation
<1>22. CASE UNCHANGED vars
  BY <1>22 DEF vars
<1> QED
  BY <1>1, <1>2, <1>3, <1>4, <1>5, <1>6, <1>7, <1>8, <1>9, <1>10, <1>11, <1>12,
     <1>13, <1>14, <1>15, <1>16, <1>17, <1>18, <1>19, <1>20, <1>21, <1>22
  DEF Next, GatewayStep, LoginStep, LogoutStep

\* Every step keeps OldIsLocated: GetLocation answers with a channel of the
\* account that was written by its own login.
LEMMA OldNext ==
    ASSUME TypeOK, Fresh, SessionBacked, LocationBacked, OldIsLocated, [Next]_vars PROVE OldIsLocated'
<1> USE SessionAssumption DEF TypeOK, Fresh, SessionBacked, LocationBacked, OldIsLocated,
        Stored, Located, gateVars, loginVars, redisVars
<1>1. ASSUME NEW c \in Channel, Accept(c) PROVE OldIsLocated'
  BY <1>1 DEF Accept
<1>2. ASSUME NEW c \in Channel, AddChannel(c) PROVE OldIsLocated'
  BY <1>2 DEF AddChannel
<1>3. ASSUME NEW c \in Channel, ReadloopEnd(c) PROVE OldIsLocated'
  BY <1>3 DEF ReadloopEnd
<1>4. ASSUME NEW c \in Channel, Disconnect(c) PROVE OldIsLocated'
  BY <1>4 DEF Disconnect
<1>5. ASSUME NEW c \in Channel, SendPacket(c) PROVE OldIsLocated'
  BY <1>5 DEF SendPacket
<1>6. ASSUME NEW c \in Channel, LoginLookup(c) PROVE OldIsLocated'
  BY <1>6 DEF LoginLookup, LoginError
<1>7. ASSUME NEW c \in Channel, LoginKick(c) PROVE OldIsLocated'
  BY <1>7 DEF LoginKick
<1>8. ASSUME NEW c \in Channel, LoginSetLocation(c) PROVE OldIsLocated'
  BY <1>8 DEF LoginSetLocation, LoginError
<1>9. ASSUME NEW c \in Channel, LoginSetSession(c) PROVE OldIsLocated'
  BY <1>9 DEF LoginSetSession, LoginError
<1>10. ASSUME NEW c \in Channel, LoginRespond(c) PROVE OldIsLocated'
  BY <1>10 DEF LoginRespond
<1>11. ASSUME NEW c \in Channel, LoginCrash(c) PROVE OldIsLocated'
  BY <1>11 DEF LoginCrash
<1>12. ASSUME NEW c \in Channel, LogoutReceive(c) PROVE OldIsLocated'
  BY <1>12 DEF LogoutReceive
<1>13. ASSUME NEW c \in Channel, LogoutDelLocation(c) PROVE OldIsLocated'
  BY <1>13 DEF LogoutDelLocation, LogoutError
<1>14. ASSUME NEW c \in Channel, LogoutDelSession(c) PROVE OldIsLocated'
  BY <1>14 DEF LogoutDelSession, LogoutError
<1>15. ASSUME NEW c \in Channel, LogoutRespond(c) PROVE OldIsLocated'
  BY <1>15 DEF LogoutRespond
<1>16. ASSUME NEW c \in Channel, LogoutCrash(c) PROVE OldIsLocated'
  BY <1>16 DEF LogoutCrash
<1>17. ASSUME NEW c \in Channel, TalkReceive(c) PROVE OldIsLocated'
  BY <1>17 DEF TalkReceive
<1>18. ASSUME NEW c \in Channel, ExpireSession(c) PROVE OldIsLocated'
  BY <1>18 DEF ExpireSession
<1>19. ASSUME NEW n \in down, Deliver(n) PROVE OldIsLocated'
  BY <1>19 DEF Deliver
<1>20. ASSUME NEW g \in Gateway, GatewayStop(g) PROVE OldIsLocated'
  BY <1>20 DEF GatewayStop
<1>21. ASSUME NEW a \in Account, ExpireLocation(a) PROVE OldIsLocated'
  BY <1>21 DEF ExpireLocation
<1>22. CASE UNCHANGED vars
  BY <1>22 DEF vars
<1> QED
  BY <1>1, <1>2, <1>3, <1>4, <1>5, <1>6, <1>7, <1>8, <1>9, <1>10, <1>11, <1>12,
     <1>13, <1>14, <1>15, <1>16, <1>17, <1>18, <1>19, <1>20, <1>21, <1>22
  DEF Next, GatewayStep, LoginStep, LogoutStep

\* Every step keeps KickoutJustified: only LoginKick sends the notice, to the
\* channel it found.
LEMMA KickoutNext ==
    ASSUME TypeOK, Fresh, OldIsLocated, KickoutJustified, [Next]_vars PROVE KickoutJustified'
<1> USE SessionAssumption DEF TypeOK, Fresh, OldIsLocated, KickoutJustified, Located, Rival,
        Note, gateVars, loginVars, redisVars
<1>1. ASSUME NEW c \in Channel, Accept(c) PROVE KickoutJustified'
  BY <1>1 DEF Accept
<1>2. ASSUME NEW c \in Channel, AddChannel(c) PROVE KickoutJustified'
  BY <1>2 DEF AddChannel
<1>3. ASSUME NEW c \in Channel, ReadloopEnd(c) PROVE KickoutJustified'
  BY <1>3 DEF ReadloopEnd
<1>4. ASSUME NEW c \in Channel, Disconnect(c) PROVE KickoutJustified'
  BY <1>4 DEF Disconnect
<1>5. ASSUME NEW c \in Channel, SendPacket(c) PROVE KickoutJustified'
  BY <1>5 DEF SendPacket
<1>6. ASSUME NEW c \in Channel, LoginLookup(c) PROVE KickoutJustified'
  BY <1>6 DEF LoginLookup, LoginError
<1>7. ASSUME NEW c \in Channel, LoginKick(c) PROVE KickoutJustified'
  BY <1>7 DEF LoginKick
<1>8. ASSUME NEW c \in Channel, LoginSetLocation(c) PROVE KickoutJustified'
  BY <1>8 DEF LoginSetLocation, LoginError
<1>9. ASSUME NEW c \in Channel, LoginSetSession(c) PROVE KickoutJustified'
  BY <1>9 DEF LoginSetSession, LoginError
<1>10. ASSUME NEW c \in Channel, LoginRespond(c) PROVE KickoutJustified'
  BY <1>10 DEF LoginRespond
<1>11. ASSUME NEW c \in Channel, LoginCrash(c) PROVE KickoutJustified'
  BY <1>11 DEF LoginCrash
<1>12. ASSUME NEW c \in Channel, LogoutReceive(c) PROVE KickoutJustified'
  BY <1>12 DEF LogoutReceive
<1>13. ASSUME NEW c \in Channel, LogoutDelLocation(c) PROVE KickoutJustified'
  BY <1>13 DEF LogoutDelLocation, LogoutError
<1>14. ASSUME NEW c \in Channel, LogoutDelSession(c) PROVE KickoutJustified'
  BY <1>14 DEF LogoutDelSession, LogoutError
<1>15. ASSUME NEW c \in Channel, LogoutRespond(c) PROVE KickoutJustified'
  BY <1>15 DEF LogoutRespond
<1>16. ASSUME NEW c \in Channel, LogoutCrash(c) PROVE KickoutJustified'
  BY <1>16 DEF LogoutCrash
<1>17. ASSUME NEW c \in Channel, TalkReceive(c) PROVE KickoutJustified'
  BY <1>17 DEF TalkReceive
<1>18. ASSUME NEW c \in Channel, ExpireSession(c) PROVE KickoutJustified'
  BY <1>18 DEF ExpireSession
<1>19. ASSUME NEW n \in down, Deliver(n) PROVE KickoutJustified'
  BY <1>19 DEF Deliver
<1>20. ASSUME NEW g \in Gateway, GatewayStop(g) PROVE KickoutJustified'
  BY <1>20 DEF GatewayStop
<1>21. ASSUME NEW a \in Account, ExpireLocation(a) PROVE KickoutJustified'
  BY <1>21 DEF ExpireLocation
<1>22. CASE UNCHANGED vars
  BY <1>22 DEF vars
<1> QED
  BY <1>1, <1>2, <1>3, <1>4, <1>5, <1>6, <1>7, <1>8, <1>9, <1>10, <1>11, <1>12,
     <1>13, <1>14, <1>15, <1>16, <1>17, <1>18, <1>19, <1>20, <1>21, <1>22
  DEF Next, GatewayStep, LoginStep, LogoutStep

\* Every step keeps GateOrder: the gateway's steps for a connection come in the
\* order of its goroutine, and a client waits for LoginResp.
LEMMA GateOrderNext ==
    ASSUME TypeOK, Fresh, GateOrder, [Next]_vars PROVE GateOrder'
<1> USE SessionAssumption, NoteEq DEF TypeOK, Fresh, GateOrder, gateVars, loginVars, redisVars
<1>1. ASSUME NEW c \in Channel, Accept(c) PROVE GateOrder'
  BY <1>1 DEF Accept
<1>2. ASSUME NEW c \in Channel, AddChannel(c) PROVE GateOrder'
  BY <1>2 DEF AddChannel
<1>3. ASSUME NEW c \in Channel, ReadloopEnd(c) PROVE GateOrder'
  BY <1>3 DEF ReadloopEnd
<1>4. ASSUME NEW c \in Channel, Disconnect(c) PROVE GateOrder'
  BY <1>4 DEF Disconnect
<1>5. ASSUME NEW c \in Channel, SendPacket(c) PROVE GateOrder'
  BY <1>5 DEF SendPacket
<1>6. ASSUME NEW c \in Channel, LoginLookup(c) PROVE GateOrder'
  BY <1>6 DEF LoginLookup, LoginError
<1>7. ASSUME NEW c \in Channel, LoginKick(c) PROVE GateOrder'
  BY <1>7 DEF LoginKick
<1>8. ASSUME NEW c \in Channel, LoginSetLocation(c) PROVE GateOrder'
  BY <1>8 DEF LoginSetLocation, LoginError
<1>9. ASSUME NEW c \in Channel, LoginSetSession(c) PROVE GateOrder'
  BY <1>9 DEF LoginSetSession, LoginError
<1>10. ASSUME NEW c \in Channel, LoginRespond(c) PROVE GateOrder'
  BY <1>10 DEF LoginRespond
<1>11. ASSUME NEW c \in Channel, LoginCrash(c) PROVE GateOrder'
  BY <1>11 DEF LoginCrash
<1>12. ASSUME NEW c \in Channel, LogoutReceive(c) PROVE GateOrder'
  BY <1>12 DEF LogoutReceive
<1>13. ASSUME NEW c \in Channel, LogoutDelLocation(c) PROVE GateOrder'
  BY <1>13 DEF LogoutDelLocation, LogoutError
<1>14. ASSUME NEW c \in Channel, LogoutDelSession(c) PROVE GateOrder'
  BY <1>14 DEF LogoutDelSession, LogoutError
<1>15. ASSUME NEW c \in Channel, LogoutRespond(c) PROVE GateOrder'
  BY <1>15 DEF LogoutRespond
<1>16. ASSUME NEW c \in Channel, LogoutCrash(c) PROVE GateOrder'
  BY <1>16 DEF LogoutCrash
<1>17. ASSUME NEW c \in Channel, TalkReceive(c) PROVE GateOrder'
  BY <1>17 DEF TalkReceive
<1>18. ASSUME NEW c \in Channel, ExpireSession(c) PROVE GateOrder'
  BY <1>18 DEF ExpireSession
<1>19. ASSUME NEW n \in down, Deliver(n) PROVE GateOrder'
  BY <1>19, NoteOf DEF Deliver
<1>20. ASSUME NEW g \in Gateway, GatewayStop(g) PROVE GateOrder'
  BY <1>20 DEF GatewayStop
<1>21. ASSUME NEW a \in Account, ExpireLocation(a) PROVE GateOrder'
  BY <1>21 DEF ExpireLocation
<1>22. CASE UNCHANGED vars
  BY <1>22 DEF vars
<1> QED
  BY <1>1, <1>2, <1>3, <1>4, <1>5, <1>6, <1>7, <1>8, <1>9, <1>10, <1>11, <1>12,
     <1>13, <1>14, <1>15, <1>16, <1>17, <1>18, <1>19, <1>20, <1>21, <1>22
  DEF Next, GatewayStep, LoginStep, LogoutStep

\* Every step keeps EstablishedSessionFound: a session key that has not expired goes
\* only with DoSysLogout, hence after Disconnect.
LEMMA FoundNext ==
    ASSUME TypeOK, GateOrder, KeysKept, EstablishedSessionFound, [Next]_vars PROVE EstablishedSessionFound'
<1> USE SessionAssumption DEF TypeOK, GateOrder, KeysKept, EstablishedSessionFound, Stored,
        Erased, ConnPhase, gateVars, loginVars, redisVars
<1>1. ASSUME NEW c \in Channel, Accept(c) PROVE EstablishedSessionFound'
  BY <1>1 DEF Accept
<1>2. ASSUME NEW c \in Channel, AddChannel(c) PROVE EstablishedSessionFound'
  BY <1>2 DEF AddChannel
<1>3. ASSUME NEW c \in Channel, ReadloopEnd(c) PROVE EstablishedSessionFound'
  BY <1>3 DEF ReadloopEnd
<1>4. ASSUME NEW c \in Channel, Disconnect(c) PROVE EstablishedSessionFound'
  BY <1>4 DEF Disconnect
<1>5. ASSUME NEW c \in Channel, SendPacket(c) PROVE EstablishedSessionFound'
  BY <1>5 DEF SendPacket
<1>6. ASSUME NEW c \in Channel, LoginLookup(c) PROVE EstablishedSessionFound'
  BY <1>6 DEF LoginLookup, LoginError
<1>7. ASSUME NEW c \in Channel, LoginKick(c) PROVE EstablishedSessionFound'
  BY <1>7 DEF LoginKick
<1>8. ASSUME NEW c \in Channel, LoginSetLocation(c) PROVE EstablishedSessionFound'
  BY <1>8 DEF LoginSetLocation, LoginError
<1>9. ASSUME NEW c \in Channel, LoginSetSession(c) PROVE EstablishedSessionFound'
  BY <1>9 DEF LoginSetSession, LoginError
<1>10. ASSUME NEW c \in Channel, LoginRespond(c) PROVE EstablishedSessionFound'
  BY <1>10 DEF LoginRespond
<1>11. ASSUME NEW c \in Channel, LoginCrash(c) PROVE EstablishedSessionFound'
  BY <1>11 DEF LoginCrash
<1>12. ASSUME NEW c \in Channel, LogoutReceive(c) PROVE EstablishedSessionFound'
  BY <1>12 DEF LogoutReceive
<1>13. ASSUME NEW c \in Channel, LogoutDelLocation(c) PROVE EstablishedSessionFound'
  BY <1>13 DEF LogoutDelLocation, LogoutError
<1>14. ASSUME NEW c \in Channel, LogoutDelSession(c) PROVE EstablishedSessionFound'
  BY <1>14 DEF LogoutDelSession, LogoutError
<1>15. ASSUME NEW c \in Channel, LogoutRespond(c) PROVE EstablishedSessionFound'
  BY <1>15 DEF LogoutRespond
<1>16. ASSUME NEW c \in Channel, LogoutCrash(c) PROVE EstablishedSessionFound'
  BY <1>16 DEF LogoutCrash
<1>17. ASSUME NEW c \in Channel, TalkReceive(c) PROVE EstablishedSessionFound'
  BY <1>17 DEF TalkReceive
<1>18. ASSUME NEW c \in Channel, ExpireSession(c) PROVE EstablishedSessionFound'
  BY <1>18 DEF ExpireSession
<1>19. ASSUME NEW n \in down, Deliver(n) PROVE EstablishedSessionFound'
  BY <1>19 DEF Deliver
<1>20. ASSUME NEW g \in Gateway, GatewayStop(g) PROVE EstablishedSessionFound'
  BY <1>20 DEF GatewayStop
<1>21. ASSUME NEW a \in Account, ExpireLocation(a) PROVE EstablishedSessionFound'
  BY <1>21 DEF ExpireLocation
<1>22. CASE UNCHANGED vars
  BY <1>22 DEF vars
<1> QED
  BY <1>1, <1>2, <1>3, <1>4, <1>5, <1>6, <1>7, <1>8, <1>9, <1>10, <1>11, <1>12,
     <1>13, <1>14, <1>15, <1>16, <1>17, <1>18, <1>19, <1>20, <1>21, <1>22
  DEF Next, GatewayStep, LoginStep, LogoutStep

\* Every step keeps KeysKept: but by expiry, keys are removed by DoSysLogout and
\* replaced by the login of a rival, and by nothing else.
LEMMA KeysKeptNext ==
    ASSUME TypeOK, Fresh, SessionBacked, GateOrder, KeysKept, [Next]_vars PROVE KeysKept'
<1> USE SessionAssumption DEF TypeOK, Fresh, SessionBacked, GateOrder, KeysKept, Rival,
        Located, Stored, Unlocated, Erased, gateVars, loginVars, redisVars
<1>1. ASSUME NEW c \in Channel, Accept(c) PROVE KeysKept'
  BY <1>1 DEF Accept
<1>2. ASSUME NEW c \in Channel, AddChannel(c) PROVE KeysKept'
  BY <1>2 DEF AddChannel
<1>3. ASSUME NEW c \in Channel, ReadloopEnd(c) PROVE KeysKept'
  BY <1>3 DEF ReadloopEnd
<1>4. ASSUME NEW c \in Channel, Disconnect(c) PROVE KeysKept'
  BY <1>4 DEF Disconnect
<1>5. ASSUME NEW c \in Channel, SendPacket(c) PROVE KeysKept'
  BY <1>5 DEF SendPacket
<1>6. ASSUME NEW c \in Channel, LoginLookup(c) PROVE KeysKept'
  BY <1>6 DEF LoginLookup, LoginError
<1>7. ASSUME NEW c \in Channel, LoginKick(c) PROVE KeysKept'
  BY <1>7 DEF LoginKick
<1>8. ASSUME NEW c \in Channel, LoginSetLocation(c) PROVE KeysKept'
  BY <1>8 DEF LoginSetLocation, LoginError
<1>9. ASSUME NEW c \in Channel, LoginSetSession(c) PROVE KeysKept'
  BY <1>9 DEF LoginSetSession, LoginError
<1>10. ASSUME NEW c \in Channel, LoginRespond(c) PROVE KeysKept'
  BY <1>10 DEF LoginRespond
<1>11. ASSUME NEW c \in Channel, LoginCrash(c) PROVE KeysKept'
  BY <1>11 DEF LoginCrash
<1>12. ASSUME NEW c \in Channel, LogoutReceive(c) PROVE KeysKept'
  BY <1>12 DEF LogoutReceive
<1>13. ASSUME NEW c \in Channel, LogoutDelLocation(c) PROVE KeysKept'
  BY <1>13 DEF LogoutDelLocation, LogoutError
<1>14. ASSUME NEW c \in Channel, LogoutDelSession(c) PROVE KeysKept'
  BY <1>14 DEF LogoutDelSession, LogoutError
<1>15. ASSUME NEW c \in Channel, LogoutRespond(c) PROVE KeysKept'
  BY <1>15 DEF LogoutRespond
<1>16. ASSUME NEW c \in Channel, LogoutCrash(c) PROVE KeysKept'
  BY <1>16 DEF LogoutCrash
<1>17. ASSUME NEW c \in Channel, TalkReceive(c) PROVE KeysKept'
  BY <1>17 DEF TalkReceive
<1>18. ASSUME NEW c \in Channel, ExpireSession(c) PROVE KeysKept'
  BY <1>18 DEF ExpireSession
<1>19. ASSUME NEW n \in down, Deliver(n) PROVE KeysKept'
  BY <1>19 DEF Deliver
<1>20. ASSUME NEW g \in Gateway, GatewayStop(g) PROVE KeysKept'
  BY <1>20 DEF GatewayStop
<1>21. ASSUME NEW a \in Account, ExpireLocation(a) PROVE KeysKept'
  BY <1>21 DEF ExpireLocation
<1>22. CASE UNCHANGED vars
  BY <1>22 DEF vars
<1> QED
  BY <1>1, <1>2, <1>3, <1>4, <1>5, <1>6, <1>7, <1>8, <1>9, <1>10, <1>11, <1>12,
     <1>13, <1>14, <1>15, <1>16, <1>17, <1>18, <1>19, <1>20, <1>21, <1>22
  DEF Next, GatewayStep, LoginStep, LogoutStep

\* Every step keeps NoHalfLogout: without faults DoSysLogout runs to its end.
LEMMA NoHalfNext ==
    ASSUME TypeOK, NoHalfLogout, [Next]_vars PROVE NoHalfLogout'
<1> USE SessionAssumption DEF TypeOK, NoHalfLogout, gateVars, loginVars, redisVars
<1>1. ASSUME NEW c \in Channel, Accept(c) PROVE NoHalfLogout'
  BY <1>1 DEF Accept
<1>2. ASSUME NEW c \in Channel, AddChannel(c) PROVE NoHalfLogout'
  BY <1>2 DEF AddChannel
<1>3. ASSUME NEW c \in Channel, ReadloopEnd(c) PROVE NoHalfLogout'
  BY <1>3 DEF ReadloopEnd
<1>4. ASSUME NEW c \in Channel, Disconnect(c) PROVE NoHalfLogout'
  BY <1>4 DEF Disconnect
<1>5. ASSUME NEW c \in Channel, SendPacket(c) PROVE NoHalfLogout'
  BY <1>5 DEF SendPacket
<1>6. ASSUME NEW c \in Channel, LoginLookup(c) PROVE NoHalfLogout'
  BY <1>6 DEF LoginLookup, LoginError
<1>7. ASSUME NEW c \in Channel, LoginKick(c) PROVE NoHalfLogout'
  BY <1>7 DEF LoginKick
<1>8. ASSUME NEW c \in Channel, LoginSetLocation(c) PROVE NoHalfLogout'
  BY <1>8 DEF LoginSetLocation, LoginError
<1>9. ASSUME NEW c \in Channel, LoginSetSession(c) PROVE NoHalfLogout'
  BY <1>9 DEF LoginSetSession, LoginError
<1>10. ASSUME NEW c \in Channel, LoginRespond(c) PROVE NoHalfLogout'
  BY <1>10 DEF LoginRespond
<1>11. ASSUME NEW c \in Channel, LoginCrash(c) PROVE NoHalfLogout'
  BY <1>11 DEF LoginCrash
<1>12. ASSUME NEW c \in Channel, LogoutReceive(c) PROVE NoHalfLogout'
  BY <1>12 DEF LogoutReceive
<1>13. ASSUME NEW c \in Channel, LogoutDelLocation(c) PROVE NoHalfLogout'
  BY <1>13 DEF LogoutDelLocation, LogoutError
<1>14. ASSUME NEW c \in Channel, LogoutDelSession(c) PROVE NoHalfLogout'
  BY <1>14 DEF LogoutDelSession, LogoutError
<1>15. ASSUME NEW c \in Channel, LogoutRespond(c) PROVE NoHalfLogout'
  BY <1>15 DEF LogoutRespond
<1>16. ASSUME NEW c \in Channel, LogoutCrash(c) PROVE NoHalfLogout'
  BY <1>16 DEF LogoutCrash
<1>17. ASSUME NEW c \in Channel, TalkReceive(c) PROVE NoHalfLogout'
  BY <1>17 DEF TalkReceive
<1>18. ASSUME NEW c \in Channel, ExpireSession(c) PROVE NoHalfLogout'
  BY <1>18 DEF ExpireSession
<1>19. ASSUME NEW n \in down, Deliver(n) PROVE NoHalfLogout'
  BY <1>19 DEF Deliver
<1>20. ASSUME NEW g \in Gateway, GatewayStop(g) PROVE NoHalfLogout'
  BY <1>20 DEF GatewayStop
<1>21. ASSUME NEW a \in Account, ExpireLocation(a) PROVE NoHalfLogout'
  BY <1>21 DEF ExpireLocation
<1>22. CASE UNCHANGED vars
  BY <1>22 DEF vars
<1> QED
  BY <1>1, <1>2, <1>3, <1>4, <1>5, <1>6, <1>7, <1>8, <1>9, <1>10, <1>11, <1>12,
     <1>13, <1>14, <1>15, <1>16, <1>17, <1>18, <1>19, <1>20, <1>21, <1>22
  DEF Next, GatewayStep, LoginStep, LogoutStep

-----------------------------------------------------------------------------
(* The theorems *)

\* The inductive invariant: TypeOK and everything the parts say hold in every
\* reachable state, whatever faults are allowed.
THEOREM Invariance == Spec => []IInv
<1>1. Init => IInv
  BY InvInit
<1>2. IInv /\ [Next]_vars => IInv'
  BY TypeNext, FreshNext, SessionBackedNext, LocationBackedNext, LoggedOutNext, OldNext,
     KickoutNext, GateOrderNext, FoundNext, KeysKeptNext, NoHalfNext DEF IInv
<1> QED
  BY <1>1, <1>2, PTL DEF Spec

\* Every variable of the gateways, of the login services and of redis keeps its
\* type.
THEOREM TypeCorrect == Spec => []TypeOK
  BY Invariance, PTL DEF IInv

\* A location in redis leads to a session of its account (RedisStorage.Add and
\* Delete, expiry included).
THEOREM LocationsBacked == Spec => []LocationBacked
  BY Invariance, PTL DEF IInv

\* DoSysLogout's deletions are never undone by a concurrent DoSysLogin.
THEOREM LogoutsForgotten == Spec => []LoggedOutIsForgotten
  BY Invariance, PTL DEF IInv

\* KickoutNotify reaches only sessions that a rival login found.
THEOREM KickoutsJustified == Spec => []KickoutJustified
  BY Invariance, PTL DEF IInv

\* Until it expires ServHandler.Receive finds the session of every client that
\* was told its login succeeded and is still connected.
THEOREM SessionsFound == Spec => []EstablishedSessionFound
  BY Invariance, PTL DEF IInv

\* A connected session is located unless its keys expired or a rival logged in.
THEOREM SoleDevicesReachable == Spec => []SoleDeviceReachable
<1>1. IInv => SoleDeviceReachable
  BY DEF IInv, GateOrder, KeysKept, SoleDeviceReachable, Located, Unlocated
<1> QED
  BY <1>1, Invariance, PTL

\* Without faults only a SignOut that overtook its SignIn leaves a session.
THEOREM LeftoversExplained == Spec => []LeftoverOnlyByOvertaking
<1>1. IInv => LeftoverOnlyByOvertaking
  BY DEF IInv, LoggedOutIsForgotten, NoHalfLogout, LeftoverOnlyByOvertaking, LogoutEnd, Erased
<1> QED
  BY <1>1, Invariance, PTL

-----------------------------------------------------------------------------
(* Session implements SessionRegistry. *)

\* An empty redis is an empty registry.
LEMMA RegistryInit == Init => Registry!Init
  BY DEF Init, Registry!Init, phase, Stored

\* A step after which the phases are the old ones but for that of c is an update
\* of phase at c.
LEMMA PhaseMove ==
    ASSUME NEW c \in Channel, NEW p, phase'[c] = p,
           \A d \in Channel \ {c} : phase'[d] = phase[d]
    PROVE  phase' = [phase EXCEPT ![c] = p]
  BY DEF phase

\* One Session step is one step of the registry, or none.
LEMMA RegistryNext ==
    ASSUME IInv, [Next]_vars PROVE [Registry!Next]_<<phase, loc>>
<1> USE SessionAssumption DEF IInv, TypeOK, gateVars, loginVars, redisVars
<1>1. ASSUME NEW c \in Channel, Accept(c) PROVE UNCHANGED <<phase, loc>>
  BY <1>1 DEF Accept, phase, Fresh, SessionBacked, Stored, Unlocated
<1>2. ASSUME NEW c \in Channel, AddChannel(c) PROVE UNCHANGED <<phase, loc>>
  BY <1>2 DEF AddChannel, phase, Fresh, SessionBacked, Stored, Unlocated
<1>3. ASSUME NEW c \in Channel, ReadloopEnd(c) PROVE UNCHANGED <<phase, loc>>
  BY <1>3 DEF ReadloopEnd, phase, Fresh, SessionBacked, Stored, Unlocated
<1>4. ASSUME NEW c \in Channel, Disconnect(c) PROVE UNCHANGED <<phase, loc>>
  BY <1>4 DEF Disconnect, phase, GateOrder
<1>5. ASSUME NEW c \in Channel, SendPacket(c) PROVE UNCHANGED <<phase, loc>>
  BY <1>5 DEF SendPacket, phase, Fresh, SessionBacked, Stored, Unlocated
<1>6. ASSUME NEW c \in Channel, LoginLookup(c) PROVE UNCHANGED <<phase, loc>>
  BY <1>6 DEF LoginLookup, LoginError, phase, Fresh, SessionBacked, Stored, Unlocated
<1>7. ASSUME NEW c \in Channel, LoginKick(c) PROVE UNCHANGED <<phase, loc>>
  BY <1>7 DEF LoginKick, phase, Fresh, SessionBacked, Stored, Unlocated
<1>8. ASSUME NEW c \in Channel, LoginSetLocation(c) PROVE [Registry!Next]_<<phase, loc>>
  <2>1. CASE login'[c] = "failed"
    BY <1>8, <2>1 DEF LoginSetLocation, LoginError, phase, SessionBacked, Stored
  <2>2. CASE login'[c] # "failed"
    <3>1. phase[c] = "new" /\ loc' = [loc EXCEPT ![Owner[c]] = c]
      BY <1>8, <2>2 DEF LoginSetLocation, LoginError, phase, SessionBacked, Stored
    <3>2. phase'[c] = "bound" /\ \A d \in Channel \ {c} : phase'[d] = phase[d]
      BY <1>8, <2>2 DEF LoginSetLocation, LoginError, phase, SessionBacked, Stored
    <3> QED
      BY <3>1, <3>2, PhaseMove DEF Registry!Bind, Registry!Next
  <2> QED
    BY <2>1, <2>2
<1>9. ASSUME NEW c \in Channel, LoginSetSession(c) PROVE [Registry!Next]_<<phase, loc>>
  <2>1. CASE login'[c] = "partial"
    BY <1>9, <2>1 DEF LoginSetSession, LoginError, phase, SessionBacked, Stored
  <2>2. CASE login'[c] # "partial"
    <3>1. phase[c] = "bound"
      BY <1>9 DEF LoginSetSession, phase, SessionBacked, Stored
    <3>2. phase'[c] = "active" /\ \A d \in Channel \ {c} : phase'[d] = phase[d]
      BY <1>9, <2>2 DEF LoginSetSession, LoginError, phase, SessionBacked, Stored, Unlocated
    <3>3. UNCHANGED loc
      BY <1>9 DEF LoginSetSession
    <3> QED
      BY <3>1, <3>2, <3>3, PhaseMove DEF Registry!Store, Registry!Next
  <2> QED
    BY <2>1, <2>2
<1>10. ASSUME NEW c \in Channel, LoginRespond(c) PROVE UNCHANGED <<phase, loc>>
  BY <1>10 DEF LoginRespond, phase, Fresh, SessionBacked, Stored, Unlocated
<1>11. ASSUME NEW c \in Channel, LoginCrash(c) PROVE UNCHANGED <<phase, loc>>
  BY <1>11 DEF LoginCrash, phase, Fresh, SessionBacked, Stored, Unlocated
<1>12. ASSUME NEW c \in Channel, LogoutReceive(c) PROVE UNCHANGED <<phase, loc>>
  BY <1>12 DEF LogoutReceive, phase, Fresh, SessionBacked, Stored, Unlocated
<1>13. ASSUME NEW c \in Channel, LogoutDelLocation(c) PROVE [Registry!Next]_<<phase, loc>>
  <2> login[c] \in Stored
    BY <1>13 DEF LogoutDelLocation, SessionBacked
  <2>1. CASE logout'[c] = "failed"
    BY <1>13, <2>1 DEF LogoutDelLocation, LogoutError, phase
  <2>2. CASE logout'[c] # "failed"
    <3>1. loc' = [loc EXCEPT ![Owner[c]] = Nil]
      BY <1>13, <2>2 DEF LogoutDelLocation, LogoutError
    <3>2. logout[c] = "delLoc" /\ logout'[c] \in {"delSn", "partial"} /\ UNCHANGED <<login, sn>>
      BY <1>13, <2>2 DEF LogoutDelLocation, LogoutError
    <3>3. \A d \in Channel \ {c} : phase'[d] = phase[d]
      BY <1>13 DEF LogoutDelLocation, LogoutError, phase
    <3>4. CASE c \in sn
      <4>1. phase[c] = "active" /\ phase'[c] = "leaving"
        BY <3>2, <3>4 DEF phase
      <4> QED
        BY <3>1, <3>3, <4>1, PhaseMove DEF Registry!Unbind, Registry!Next
    <3>5. CASE c \notin sn
      <4>1. phase[c] = "gone" /\ phase'[c] = "gone"
        BY <3>2, <3>5 DEF phase, Stored
      <4>2. UNCHANGED phase
        BY <3>3, <4>1 DEF phase
      <4> QED
        BY <3>1, <4>1, <4>2 DEF Registry!Unbind, Registry!Next
    <3> QED
      BY <3>4, <3>5
  <2> QED
    BY <2>1, <2>2
<1>14. ASSUME NEW c \in Channel, LogoutDelSession(c) PROVE [Registry!Next]_<<phase, loc>>
  <2> login[c] \in Stored
    BY <1>14 DEF LogoutDelSession, SessionBacked, Unlocated
  <2>1. CASE sn' = sn
    BY <1>14, <2>1 DEF LogoutDelSession, LogoutError, phase, Stored
  <2>2. CASE sn' # sn
    <3>0. sn' = sn \ {c} /\ UNCHANGED <<login, loc>>
      BY <1>14, <2>2 DEF LogoutDelSession, LogoutError
    <3>1. c \in sn /\ sn' = sn \ {c} /\ UNCHANGED <<login, loc>>
      <4>1. c \notin sn => sn \ {c} = sn
        OBVIOUS
      <4> QED
        BY <2>2, <3>0, <4>1
    <3>2. phase[c] = "leaving" /\ phase'[c] = "gone"
      BY <1>14, <3>1 DEF LogoutDelSession, phase, Stored
    <3>3. \A d \in Channel \ {c} : phase'[d] = phase[d]
      BY <1>14, <3>1 DEF LogoutDelSession, LogoutError, phase
    <3> QED
      BY <3>1, <3>2, <3>3, PhaseMove DEF Registry!Erase, Registry!Next
  <2> QED
    BY <2>1, <2>2
<1>15. ASSUME NEW c \in Channel, LogoutRespond(c) PROVE UNCHANGED <<phase, loc>>
  BY <1>15 DEF LogoutRespond, phase, Fresh, SessionBacked, Stored, Unlocated
<1>16. ASSUME NEW c \in Channel, LogoutCrash(c) PROVE UNCHANGED <<phase, loc>>
  BY <1>16 DEF LogoutCrash, phase, Fresh, SessionBacked, Stored, Unlocated
<1>17. ASSUME NEW c \in Channel, TalkReceive(c) PROVE UNCHANGED <<phase, loc>>
  BY <1>17 DEF TalkReceive, phase, Fresh, SessionBacked, Stored, Unlocated
<1>18. ASSUME NEW c \in Channel, ExpireSession(c) PROVE [Registry!Next]_<<phase, loc>>
  <2>1. phase[c] \in {"active", "leaving"} /\ phase'[c] = "gone"
    BY <1>18 DEF ExpireSession, phase, SessionBacked, Stored
  <2>2. \A d \in Channel \ {c} : phase'[d] = phase[d]
    BY <1>18 DEF ExpireSession, phase
  <2>3. loc[Owner[c]] # c /\ UNCHANGED loc
    BY <1>18 DEF ExpireSession
  <2> QED
    BY <2>1, <2>2, <2>3, PhaseMove DEF Registry!ExpireSession, Registry!Next
<1>19. ASSUME NEW n \in down, Deliver(n) PROVE UNCHANGED <<phase, loc>>
  BY <1>19 DEF Deliver, phase, Fresh, SessionBacked, Stored, Unlocated
<1>20. ASSUME NEW g \in Gateway, GatewayStop(g) PROVE UNCHANGED <<phase, loc>>
  BY <1>20 DEF GatewayStop, phase, Fresh, SessionBacked, Stored, Unlocated
<1>21. ASSUME NEW a \in Account, ExpireLocation(a) PROVE [Registry!Next]_<<phase, loc>>
  <2>1. Registry!ExpireLocation(a) \/ UNCHANGED <<phase, loc>>
    BY <1>21 DEF ExpireLocation, phase, Registry!ExpireLocation
  <2> QED
    BY <2>1 DEF Registry!Next
<1>22. CASE UNCHANGED vars
  BY <1>22 DEF vars, phase
<1> QED
  BY <1>1, <1>2, <1>3, <1>4, <1>5, <1>6, <1>7, <1>8, <1>9, <1>10, <1>11, <1>12,
     <1>13, <1>14, <1>15, <1>16, <1>17, <1>18, <1>19, <1>20, <1>21, <1>22
  DEF Next, GatewayStep, LoginStep, LogoutStep

\* RedisStorage, used by interleaved and failing handlers, is the registry.
THEOREM Implementation == Spec => ImplementsRegistry
<1>1. Init => Registry!Init
  BY RegistryInit
<1>2. IInv /\ [Next]_vars => [Registry!Next]_(Registry!vars)
  BY RegistryNext DEF Registry!vars
<1> QED
  BY <1>1, <1>2, Invariance, PTL DEF Spec, Registry!Spec, ImplementsRegistry

-----------------------------------------------------------------------------
(* The gateways of Session use their servers as Connections allows. *)

\* A step that takes one connection along one edge of its life.
LEMMA ConnMove ==
    ASSUME NEW c \in Channel, NEW from, NEW to, TypeOK,
           conn[c] = from, conn' = [conn EXCEPT ![c] = to]
    PROVE  /\ Life!Goto(c, from, to)
           /\ from # "open" /\ to # "open" => UNCHANGED reach
           /\ from # "open" /\ to = "open" => reach' = reach \cup {c}
  BY DEF TypeOK, reach, Life!Goto

\* A step of the login services, of redis, or of a delivery leaves the connections
\* alone; one of the gateway is a step of Connections.
LEMMA ConnNext ==
    ASSUME TypeOK, [Next]_vars PROVE [Life!Next]_<<conn, reach>>
<1>1. ASSUME NEW c \in Channel, Accept(c) PROVE [Life!Next]_<<conn, reach>>
  <2>1. Life!Accept(c) \/ Life!Refuse(c)
    BY <1>1, ConnMove DEF Accept, Life!Accept, Life!Refuse
  <2> QED
    BY <2>1 DEF Life!Next
<1>2. ASSUME NEW c \in Channel, AddChannel(c) PROVE [Life!Next]_<<conn, reach>>
  BY <1>2, ConnMove DEF AddChannel, Life!Open, Life!Next
<1>3. ASSUME NEW c \in Channel, ReadloopEnd(c) PROVE [Life!Next]_<<conn, reach>>
  <2>1. conn[c] = "open" /\ conn' = [conn EXCEPT ![c] = "closing"]
    BY <1>3 DEF ReadloopEnd
  <2>2. Life!Goto(c, "open", "closing") /\ reach' = reach \ {c}
    BY <2>1 DEF TypeOK, reach, Life!Goto
  <2>3. Life!ReadEnd(c)
    BY <2>2 DEF Life!ReadEnd
  <2> QED
    BY <2>3 DEF Life!Next
<1>4. ASSUME NEW c \in Channel, Disconnect(c) PROVE [Life!Next]_<<conn, reach>>
  <2>1. conn[c] = "closing" /\ conn' = [conn EXCEPT ![c] = "closed"]
    BY <1>4 DEF Disconnect
  <2>2. Life!Goto(c, "closing", "closed") /\ UNCHANGED reach
    BY <2>1 DEF TypeOK, reach, Life!Goto
  <2>3. Life!Disconnect(c)
    BY <2>2 DEF Life!Disconnect
  <2> QED
    BY <2>3 DEF Life!Next
<1>5. ASSUME NEW g \in Gateway, GatewayStop(g) PROVE [Life!Next]_<<conn, reach>>
  <2> DEFINE lost == {c \in Channel : Gate[c] = g /\ conn[c] \notin {"none", "closed"}}
  <2>1. conn' = [c \in Channel |-> IF c \in lost THEN "closed" ELSE conn[c]]
    BY <1>5 DEF GatewayStop
  <2>2. reach' = reach \ lost
    BY <2>1 DEF reach
  <2> QED
    BY <2>1, <2>2 DEF Life!Stop, Life!Next
<1>6. CASE UNCHANGED conn
  BY <1>6 DEF reach
<1> QED
  BY <1>1, <1>2, <1>3, <1>4, <1>5, <1>6
  DEF Next, GatewayStep, LoginStep, LogoutStep, vars, gateVars, SendPacket, LoginLookup,
      LoginKick, LoginSetLocation, LoginSetSession, LoginRespond, LoginCrash, LogoutReceive,
      LogoutDelLocation, LogoutDelSession, LogoutRespond, LogoutCrash, TalkReceive,
      ExpireSession, ExpireLocation, Deliver

\* What Session takes the servers of its gateways to do is what Connections promises
\* and ServerProof shows of them.
THEOREM ConnectionsUsed == Spec => UsesConnections
<1>1. Init => Life!Init
  BY DEF Init, Life!Init, reach
<1>2. TypeOK /\ [Next]_vars => [Life!Next]_(Life!vars)
  BY ConnNext DEF Life!vars
<1> QED
  BY <1>1, <1>2, TypeCorrect, PTL DEF Spec, Life!Spec, UsesConnections

-----------------------------------------------------------------------------
(* The bytes of the location keys *)

\* What GetLocation finds is the location of the login that wrote the key exactly
\* if both ids fit their length fields, in every reachable state.
THEOREM LocationsReadBack == Spec => []LocationReadBack
<1>1. TypeOK => LocationReadBack
  <2> SUFFICES ASSUME TypeOK, NEW a \in Account, loc[a] # Nil
               PROVE  GetLocation(a) = LocationOf(loc[a]) <=> Fits(LocationOf(loc[a]))
    BY DEF LocationReadBack
  <2>1. loc[a] \in Channel
    BY DEF TypeOK
  <2>2. ChannelName[loc[a]] \in Seq(Byte) /\ GateName[Gate[loc[a]]] \in Seq(Byte)
    BY <2>1, StorageAssumption, SessionAssumption
  <2>3. Fits(LocationOf(loc[a])) <=>
            Len(ChannelName[loc[a]]) < Words16 /\ Len(GateName[Gate[loc[a]]]) < Words16
    BY DEF Fits, LocationOf, Loc
  <2> QED
    BY <2>2, <2>3, LocationCodec DEF GetLocation, LocationOf
<1> QED
  BY <1>1, TypeCorrect, PTL

=============================================================================
