------------------------------ MODULE Storage ------------------------------
(***************************************************************************)
(* The value of a location key.  Session keeps in it the channel id that   *)
(* was written; RedisStorage writes the bytes of a Location, the id of the *)
(* channel and that of its gateway after 16 bits of length each, and makes *)
(* of the bytes it finds a Location again without a look at the error.     *)
(***************************************************************************)
EXTENDS Session, Wire

CONSTANTS
    ChannelName,   \* the bytes of a channel id
    GateName       \* the bytes of a gateway's id

ASSUME StorageAssumption ==
    /\ ChannelName \in [Channel -> Seq(Byte)]
    /\ GateName \in [Gateway -> Seq(Byte)]

\* Add: the location of the session that DoSysLogin was sent.
LocationOf(c) == Loc(ChannelName[c], GateName[Gate[c]])

\* GetLocation and GetLocations, for an account that has a location key.
GetLocation(a) == Unmarshal(Bytes(LocationOf(loc[a])))

\* The lengths of both ids can be told by 16 bits.
Fits(l) == Len(l.ChannelID) < Words16 /\ Len(l.GateId) < Words16

\* A login, a logout or a message that looks an account up gets the channel and
\* the gateway of the login that wrote the key, unless one of these ids is too
\* long for its length field; then it gets another location, whatever the bytes.
LocationReadBack ==
    \A a \in Account :
        loc[a] # Nil =>
            (GetLocation(a) = LocationOf(loc[a]) <=> Fits(LocationOf(loc[a])))

=============================================================================
