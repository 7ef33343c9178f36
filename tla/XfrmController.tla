---------------------------- MODULE XfrmController ----------------------------
(***************************************************************************)
(* class XfrmController (server/XfrmController.cpp): the IPsec transforms  *)
(* of applications, as security associations, policies and interfaces of   *)
(* the kernel.                                                             *)
(*                                                                         *)
(* The controller keeps nothing but whether XFRM interfaces are supported; *)
(* the state is the kernel's.  Its callers hold no lock, so two SPI        *)
(* allocations proceed message by message in any order.  A call that       *)
(* fails its own checks sends no message and has no action.  The layout of *)
(* the messages is the subject of module XfrmMessages.                     *)
(***************************************************************************)
EXTENDS Integers, FiniteSets

CONSTANTS
    Transforms,      \* transform -> what its owner passes: see Args
    FamilyOf,        \* address that parses -> its family
    RAND_SPI_MIN, RAND_SPI_MAX,  \* 256 and 2^32 - 2 in the code
    CounterSize      \* 2^32 in the code: the values of RandomSpi::mNext

(***************************************************************************)
(* Args: mode, src, dst, newDst (after a migration), selFamily, direction, *)
(* netId (the underlying network), mark, ifId, inSpi and socketFamily (of  *)
(* the socket a transport mode transform is applied to).                   *)
(***************************************************************************)
Ids == DOMAIN Transforms

ASSUME XfrmAssumption ==
    /\ RAND_SPI_MIN \in Nat \ {0} /\ RAND_SPI_MAX \in Nat /\ RAND_SPI_MIN <= RAND_SPI_MAX
    /\ CounterSize \in Nat /\ CounterSize > RAND_SPI_MAX

VARIABLES
    mIsXfrmIntfSupported,
    xfrm,     \* the kernel: its sas, policies, interfaces and socket policies
    spiGen,   \* transform -> the RandomSpi of its allocation, or NoSpiGen
    owner     \* transform -> what its owner has: the SPI, and which objects were created

xfrmVars == <<mIsXfrmIntfSupported, xfrm, spiGen, owner>>

INVALID_SPI == 0
NoSpiGen == [mNext |-> 0, mMin |-> 0, mSize |-> 0, mCount |-> 0]
NoOwner == [spi |-> INVALID_SPI, has |-> {}, moved |-> FALSE]
EmptyXfrm == [sas |-> {}, policies |-> {}, interfaces |-> {}, sockets |-> {}]
-----------------------------------------------------------------------------
(* What the kernel is told of a transform *)

AF_UNSPEC == "AF_UNSPEC"

convertToXfrmAddr(addr) ==
    IF addr = "" THEN AF_UNSPEC ELSE IF addr \in DOMAIN FamilyOf THEN FamilyOf[addr] ELSE "EAFNOSUPPORT"

ValidEndpoints(src, dst) ==
    /\ "EAFNOSUPPORT" \notin {convertToXfrmAddr(src), convertToXfrmAddr(dst)}
    /\ convertToXfrmAddr(dst) # AF_UNSPEC
    /\ convertToXfrmAddr(src) \in {AF_UNSPEC, convertToXfrmAddr(dst)}

(* scope that knows of XFRM interfaces only. *)
interfaceScope(mark, ifId) == [mark |-> 0, ifId |-> IF mIsXfrmIntfSupported THEN ifId ELSE 0]

(* The interface of a policy or an SA: an interface ID, or a mark where there is none. *)
scope(mark, ifId) ==
    IF mIsXfrmIntfSupported THEN [mark |-> 0, ifId |-> ifId] ELSE [mark |-> mark, ifId |-> 0]

CurrentDst(t) == IF owner[t].moved THEN Transforms[t].newDst ELSE Transforms[t].dst

(* fillXfrmCommonInfo: what SAs and templates are looked up by. *)
fillXfrmCommonInfo(t, mode) ==
    [spi |-> owner[t].spi, src |-> Transforms[t].src, dst |-> CurrentDst(t),
     family |-> convertToXfrmAddr(CurrentDst(t)), reqid |-> t, mode |-> mode]

fillNlAttrXfrmOutputMark(t) ==
    IF Transforms[t].mode # "TUNNEL" THEN "none"
    ELSE IF Transforms[t].netId = 0 THEN "empty"
    ELSE <<Transforms[t].netId, "explicit", "protected", "PERMISSION_SYSTEM">>

Sa(info, where, larval, output) ==
    [info |-> info, scope |-> where, larval |-> larval, output |-> output]

(* The checks of updateSecurityAssociation. *)
ValidSa(t) ==
    LET a == Transforms[t]
    IN  /\ ValidEndpoints(a.src, CurrentDst(t))
        /\ a.mode # "TUNNEL" => a.netId = 0 /\ scope(a.mark, a.ifId) = scope(0, 0)

PolicyKey(t) ==
    [selFamily |-> Transforms[t].selFamily, direction |-> Transforms[t].direction,
     scope |-> scope(Transforms[t].mark, Transforms[t].ifId)]
HasKey(policy, key) == policy.key = key

(* policyTemplate whose mode is left as it is initialised. *)
defaultTemplate(t) == fillXfrmCommonInfo(t, "TRANSPORT")

(* The spInfo of processSecurityPolicy, whose mode is TUNNEL. *)
policyTemplate(t) == fillXfrmCommonInfo(t, "TUNNEL")

Owner(t, has) == owner' = [owner EXCEPT ![t].has = has]
-----------------------------------------------------------------------------
(* Operations *)

(* class RandomSpi *)
RandomSpi(start, min, max) ==
    [mNext |-> start, mMin |-> min, mSize |-> max - min + 1, mCount |-> max - min + 1]
NextSpi(gen) == IF gen.mCount = 0 THEN INVALID_SPI ELSE (gen.mNext % gen.mSize) + gen.mMin
AfterNext(gen) == [gen EXCEPT !.mNext = (@ + 1) % CounterSize, !.mCount = @ - 1]

SpiInUse(t, spi) == \E sa \in xfrm.sas : sa.info.dst = CurrentDst(t) /\ sa.info.spi = spi

ipSecAllocateSpi(t) ==
    /\ owner[t] = NoOwner /\ spiGen[t] = NoSpiGen
    /\ ValidEndpoints(Transforms[t].src, Transforms[t].dst)
    /\ \E start \in 1 .. (CounterSize \div 2) - 1 :
          spiGen' = [spiGen EXCEPT ![t] =
              IF Transforms[t].inSpi # INVALID_SPI
              THEN RandomSpi(start, Transforms[t].inSpi, Transforms[t].inSpi)
              ELSE RandomSpi(start, RAND_SPI_MIN, RAND_SPI_MAX)]
    /\ UNCHANGED <<mIsXfrmIntfSupported, xfrm, owner>>

(* One turn of the loop of allocateSpi, which ends with no SPI ... *)
allocateSpiFails(t) ==
    /\ spiGen[t] # NoSpiGen /\ NextSpi(spiGen[t]) = INVALID_SPI
    /\ spiGen' = [spiGen EXCEPT ![t] = NoSpiGen]
    /\ UNCHANGED <<mIsXfrmIntfSupported, xfrm, owner>>

(* ... goes on when the kernel says ENOENT, or ends with an SPI. *)
allocateSpi(t) ==
    LET spi == NextSpi(spiGen[t]) IN
    /\ spiGen[t] # NoSpiGen /\ spi # INVALID_SPI
    /\ IF SpiInUse(t, spi)
       THEN spiGen' = [spiGen EXCEPT ![t] = AfterNext(@)] /\ UNCHANGED <<xfrm, owner>>
       ELSE /\ spiGen' = [spiGen EXCEPT ![t] = NoSpiGen]
            /\ owner' = [owner EXCEPT ![t].spi = spi, ![t].has = {"spi"}]
            /\ xfrm' = [xfrm EXCEPT !.sas = @ \cup
                          {Sa([fillXfrmCommonInfo(t, "TRANSPORT") EXCEPT !.spi = spi], scope(0, 0), TRUE, "none")}]
    /\ UNCHANGED mIsXfrmIntfSupported

(* XFRM_MSG_UPDSA replaces the SA of the SPI. *)
ipSecAddSecurityAssociation(t) ==
    /\ owner[t].has = {"spi"} /\ ValidSa(t)
    /\ SpiInUse(t, owner[t].spi)
    /\ xfrm' = [xfrm EXCEPT !.sas =
          {sa \in @ : sa.info.dst # CurrentDst(t) \/ sa.info.spi # owner[t].spi} \cup
          {Sa(fillXfrmCommonInfo(t, Transforms[t].mode), scope(Transforms[t].mark, Transforms[t].ifId),
              FALSE, fillNlAttrXfrmOutputMark(t))}]
    /\ Owner(t, {"sa"})
    /\ UNCHANGED <<mIsXfrmIntfSupported, spiGen>>

(* The SA of an SPI that is not used yet has no mark. *)
ipSecDeleteSecurityAssociation(t) ==
    LET where == IF "sa" \in owner[t].has THEN scope(Transforms[t].mark, Transforms[t].ifId) ELSE scope(0, 0) IN
    /\ owner[t].has \in {{"spi"}, {"sa"}}
    /\ xfrm' = [xfrm EXCEPT !.sas = {sa \in @ : sa.info.dst # CurrentDst(t) \/ sa.info.spi # owner[t].spi
                                                \/ sa.scope.mark # where.mark}]
    /\ owner' = [owner EXCEPT ![t] = NoOwner]
    /\ UNCHANGED <<mIsXfrmIntfSupported, spiGen>>

(* XFRM_MSG_NEWPOLICY fails where the policy exists. *)
ipSecAddSecurityPolicy(t) ==
    /\ Transforms[t].mode = "TUNNEL" /\ "sa" \in owner[t].has /\ "policy" \notin owner[t].has
    /\ \A p \in xfrm.policies : ~HasKey(p, PolicyKey(t))
    /\ xfrm' = [xfrm EXCEPT !.policies = @ \cup {[key |-> PolicyKey(t), tmpl |-> policyTemplate(t)]}]
    /\ Owner(t, owner[t].has \cup {"policy"})
    /\ UNCHANGED <<mIsXfrmIntfSupported, spiGen>>

ipSecUpdateSecurityPolicy(t) ==
    /\ "policy" \in owner[t].has
    /\ xfrm' = [xfrm EXCEPT !.policies = {p \in @ : ~HasKey(p, PolicyKey(t))} \cup
                                         {[key |-> PolicyKey(t), tmpl |-> policyTemplate(t)]}]
    /\ UNCHANGED <<mIsXfrmIntfSupported, spiGen, owner>>

ipSecDeleteSecurityPolicy(t) ==
    /\ "policy" \in owner[t].has
    /\ xfrm' = [xfrm EXCEPT !.policies = {p \in @ : ~HasKey(p, PolicyKey(t))}]
    /\ Owner(t, owner[t].has \ {"policy"})
    /\ UNCHANGED <<mIsXfrmIntfSupported, spiGen>>

(***************************************************************************)
(* ipSecMigrate: the message names the policy by its selector alone, so    *)
(* the kernel may come upon the policy of another tunnel, and refuses it   *)
(* if the endpoints or the request ID are not those of its template.       *)
(***************************************************************************)
ipSecMigrate(t) ==
    LET new == Transforms[t].newDst
        Moved(info) == [info EXCEPT !.dst = new, !.family = convertToXfrmAddr(new)]
        Old(info) == info.reqid = t /\ info.mode = "TUNNEL" /\ info.dst = Transforms[t].dst
    IN  /\ {"sa", "policy"} \subseteq owner[t].has /\ ~owner[t].moved
        /\ ValidEndpoints(Transforms[t].src, new)
        /\ \E p \in xfrm.policies :
              /\ p.key.selFamily = Transforms[t].selFamily /\ p.key.direction = Transforms[t].direction
              /\ Old(p.tmpl)
              /\ xfrm' = [xfrm EXCEPT
                    !.policies = (@ \ {p}) \cup {[p EXCEPT !.tmpl = Moved(@)]},
                    !.sas = {IF Old(sa.info) THEN [sa EXCEPT !.info = Moved(@)] ELSE sa : sa \in @}]
        /\ ~\E sa \in xfrm.sas : sa.info.dst = new /\ sa.info.spi = owner[t].spi
        /\ owner' = [owner EXCEPT ![t].moved = TRUE]
        /\ UNCHANGED <<mIsXfrmIntfSupported, spiGen>>

(* A transport mode transform becomes the policy of a socket, in one direction. *)
ipSecApplyTransportModeTransform(t) ==
    /\ Transforms[t].mode = "TRANSPORT" /\ "sa" \in owner[t].has
    /\ Transforms[t].socketFamily = "AF_INET" => convertToXfrmAddr(CurrentDst(t)) = "AF_INET"
    /\ xfrm' = [xfrm EXCEPT !.sockets = {s \in @ : s.tmpl.reqid # t} \cup
                    {[direction |-> Transforms[t].direction, tmpl |-> fillXfrmCommonInfo(t, "TRANSPORT")]}]
    /\ Owner(t, owner[t].has \cup {"socket"})
    /\ UNCHANGED <<mIsXfrmIntfSupported, spiGen>>

ipSecRemoveTransportModeTransform(t) ==
    /\ "socket" \in owner[t].has
    /\ xfrm' = [xfrm EXCEPT !.sockets = {s \in @ : s.tmpl.reqid # t}]
    /\ Owner(t, owner[t].has \ {"socket"})
    /\ UNCHANGED <<mIsXfrmIntfSupported, spiGen>>

(* An XFRM interface carries the interface ID; a VTI the endpoints and the mark as its keys. *)
tunnelInterface(t) ==
    IF mIsXfrmIntfSupported THEN [name |-> t, kind |-> "xfrm", id |-> Transforms[t].ifId]
    ELSE [name |-> t, kind |-> IF convertToXfrmAddr(Transforms[t].dst) = "AF_INET6" THEN "vti6" ELSE "vti",
          id |-> Transforms[t].mark]

ipSecAddTunnelInterface(t) ==
    /\ Transforms[t].mode = "TUNNEL" /\ "sa" \in owner[t].has
    /\ mIsXfrmIntfSupported
          \/ convertToXfrmAddr(Transforms[t].src) = convertToXfrmAddr(Transforms[t].dst)
    /\ xfrm' = [xfrm EXCEPT !.interfaces = {i \in @ : i.name # t} \cup {tunnelInterface(t)}]
    /\ Owner(t, owner[t].has \cup {"interface"})
    /\ UNCHANGED <<mIsXfrmIntfSupported, spiGen>>

ipSecRemoveTunnelInterface(t) ==
    /\ "interface" \in owner[t].has
    /\ xfrm' = [xfrm EXCEPT !.interfaces = {i \in @ : i.name # t}]
    /\ Owner(t, owner[t].has \ {"interface"})
    /\ UNCHANGED <<mIsXfrmIntfSupported, spiGen>>

(* Init: flushInterfaces, flushSaDb and flushPolicyDb; the sockets died with their processes. *)
flushAll == [xfrm EXCEPT !.interfaces = {}, !.sas = {}, !.policies = {}, !.sockets = {}]

(* netd.rc restarts zygote, and every owner with it, when netd restarts. *)
restartXfrm ==
    /\ xfrm # EmptyXfrm
    /\ xfrm' = flushAll
    /\ spiGen' = [t \in Ids |-> NoSpiGen]
    /\ owner' = [t \in Ids |-> NoOwner]
    /\ UNCHANGED mIsXfrmIntfSupported

XfrmInit ==
    /\ mIsXfrmIntfSupported \in BOOLEAN
    /\ xfrm = EmptyXfrm
    /\ spiGen = [t \in Ids |-> NoSpiGen]
    /\ owner = [t \in Ids |-> NoOwner]

XfrmNext ==
    \/ \E t \in Ids :
          \/ ipSecAllocateSpi(t) \/ allocateSpi(t) \/ allocateSpiFails(t)
          \/ ipSecAddSecurityAssociation(t) \/ ipSecDeleteSecurityAssociation(t)
          \/ ipSecAddSecurityPolicy(t) \/ ipSecUpdateSecurityPolicy(t) \/ ipSecDeleteSecurityPolicy(t)
          \/ ipSecMigrate(t)
          \/ ipSecApplyTransportModeTransform(t) \/ ipSecRemoveTransportModeTransform(t)
          \/ ipSecAddTunnelInterface(t) \/ ipSecRemoveTunnelInterface(t)
    \/ restartXfrm
-----------------------------------------------------------------------------
(* Properties *)

(* The SAs that the kernel finds for a template in a scope. *)
Found(tmpl, where) == {sa \in xfrm.sas : ~sa.larval /\ sa.info = tmpl /\ sa.scope = where}

(***************************************************************************)
(* A policy, or a socket, whose transform is complete leads to one SA, the *)
(* one of its transform: they are created by calls that fill the same      *)
(* fields from separate arguments (fillUserSaInfo and fillUserTemplate),   *)
(* also after an update, a migration and in both kinds of interfaces.      *)
(***************************************************************************)
TransformsFindTheirSa ==
    /\ \A p \in xfrm.policies : "sa" \in owner[p.tmpl.reqid].has =>
          Cardinality(Found(p.tmpl, p.key.scope)) = 1
    /\ \A s \in xfrm.sockets : "sa" \in owner[s.tmpl.reqid].has =>
          Cardinality(Found(s.tmpl, scope(0, 0))) = 1

(***************************************************************************)
(* The kernel holds what the owners created and nothing else: no tunnel    *)
(* takes the policy or the SPI of another one with the same selector or    *)
(* endpoints, deletion finds what creation made, and a restart of netd     *)
(* leaves nothing behind (XfrmController.cpp:405).                         *)
(***************************************************************************)
KernelFollowsOwners ==
    /\ \A t \in Ids :
          /\ ("policy" \in owner[t].has) = (\E p \in xfrm.policies : HasKey(p, PolicyKey(t)))
          /\ ("interface" \in owner[t].has) = (tunnelInterface(t) \in xfrm.interfaces)
          /\ (owner[t].has \cap {"spi", "sa"} # {}) = (\E sa \in xfrm.sas : sa.info.reqid = t)
    /\ Cardinality(xfrm.sas) = Cardinality({t \in Ids : owner[t].has \cap {"spi", "sa"} # {}})
===============================================================================
