------------------------------ MODULE Ingress ------------------------------
(***************************************************************************)
(* The auth service behind the gateway.  The refreshes come from the       *)
(* clients of Keys and pass the limiter on their way; registrations and    *)
(* logins have other paths and so other buckets, which share nothing with  *)
(* these, and they come in at any time.                                    *)
(***************************************************************************)
EXTENDS Auth

CONSTANTS Keys, Rate, Window, NoBucket

VARIABLES bucket, since

G == INSTANCE Gateway

ASSUME IngressAssumption ==
  /\ Rate \in Nat \ {0}
  /\ Window \in Nat \ {0}
  /\ NoBucket \notin G!Bucket

allVars == <<vars, bucket, since>>

(* The gateway proxies a refresh to the service ...                        *)
Refresh ==
  /\ BeginRefresh
  /\ \E k \in Keys : G!Pass(k)

(* ... or the token it carries is unknown, revoked or expired.             *)
RefreshDenied ==
  /\ \E k \in Keys : G!Pass(k)
  /\ UNCHANGED vars

Inside ==
  /\ OtherStep
  /\ UNCHANGED <<bucket, since>>

TimePasses ==
  /\ G!Tick
  /\ UNCHANGED vars

IngressInit == Init /\ G!GInit

IngressNext == Refresh \/ RefreshDenied \/ Inside \/ TimePasses

IngressSpec == IngressInit /\ [][IngressNext]_allVars

-----------------------------------------------------------------------------
(* Properties.                                                             *)

(* Type correctness of the service and the limiter.                        *)
IngressTypeOK == TypeOK /\ G!GTypeOK

(* Gateway's properties, with the service behind it.                       *)
BurstBounded == G!BurstBounded

RefusedOnlyWhenServed == G!RefusedOnlyWhenServed
=============================================================================
