--------------------------------- MODULE MCCaches --------------------------------
(***************************************************************************)
(* The cache of shops and the projection of likes, for TLC.  They share no *)
(* state, so it is enough for a behaviour to exercise one of them.         *)
(***************************************************************************)
EXTENDS ShopCache

CONSTANTS
    Users, Clients,         \* the users and the request threads of the projection
    Legacy, Ttl,            \* SocialProjection
    MaxProjectionFaults     \* bound on its faults

\* Finitely many users; None is neither a thread nor the holder of a lost lock.
ASSUME SiteAssumption ==
    /\ IsFiniteSet(Users) /\ Legacy \in Nat /\ Ttl \in Nat /\ MaxProjectionFaults \in Nat
    /\ None \notin Clients /\ None # Orphan /\ Orphan \notin Clients

VARIABLES
    part,                                                           \* the component at work
    table, liked, row, cache, age, projectionLock, watched,         \* SocialProjection
    place, user, read, disturbed, projectionFaults

Projection ==
    INSTANCE SocialProjection WITH
        Threads <- Clients, MaxFaults <- MaxProjectionFaults,
        lock <- projectionLock, renewing <- watched, pc <- place, got <- read,
        faults <- projectionFaults

projectionVars == <<table, liked, row, cache, age, projectionLock, watched,
                    place, user, read, disturbed, projectionFaults>>

CacheInit ==
    /\ part \in {"shop", "likes"}
    /\ Init /\ (part # "shop" => db = 0 /\ redis = None)
    /\ Projection!Init /\ (part # "likes" => table = {} /\ cache = None)

\* A step of one component in a behaviour that exercises it.
Shop(A) == part = "shop" /\ A /\ UNCHANGED <<part, projectionVars>>
Likes(A) == part = "likes" /\ A /\ UNCHANGED <<part, vars>>

CacheNext == Shop(Next) \/ Likes(Projection!Next)

cacheVars == <<part, vars, projectionVars>>

\* Fairness of ShopCache and of SocialProjection.
CacheFairness ==
    /\ \A t \in Threads : WF_cacheVars(Shop(Work(t)))
    /\ WF_cacheVars(Shop(LeaseEnds))
    /\ WF_cacheVars(Shop(ExpireRedis)) /\ WF_cacheVars(Shop(ExpireLocal))
    /\ \A t \in Clients : /\ WF_cacheVars(Likes(Projection!Work(t)))
                          /\ SF_cacheVars(Likes(Projection!Begin(t)))
    /\ WF_cacheVars(Likes(Projection!LeaseEnds)) /\ WF_cacheVars(Likes(Projection!Tick))

CacheSpec == CacheInit /\ [][CacheNext]_cacheVars /\ CacheFairness

\* SocialProjection: a snapshot is the table, unless a failure has left it behind.
ProjectionInv == Projection!TypeOK /\ Projection!ProjectionExact

\* SocialProjection: the count of likes is that of the rows and the legacy likes.
CountMatches == Projection!CountMatches

\* SocialProjection: the projection comes to agree with the table.
EventuallyExact == Projection!EventuallyExact

\* Whoever uses the shop cache or the projection comes to an end.
AllCallsEnd == EveryCallEnds /\ Projection!RequestEnds
================================================================================
