-------------------------------- MODULE MCParts --------------------------------
(***************************************************************************)
(* The parts beside the epoch, the burn series and the ticks, in one run.  They     *)
(* share no state in these modules: one part moves and the others stay as  *)
(* they began, so that the states add up and do not multiply.              *)
(***************************************************************************)
EXTENDS PriceSeries, TrendLines, PriceViews, MiningSamples, RpcClient,
        ApiCache, Concentration

VARIABLES part

HourBar(high, low) == [high |-> high, low |-> low, close |-> 140]

\* A quiet hour, one that swings to both sides, and one with a lower peak: a line
\* through two swings gives way to one that falls, and comes back when that one
\* breaks.
MCShapes == {HourBar(140, 140), HourBar(300, 100), HourBar(200, 140)}

\* A scale over the whole record, and one that looks back and wants more bars.
MCScales ==
  <<[k |-> 1, minSep |-> 2, tol |-> 100, lookback |-> 0, ready |-> 3, breakBars |-> 2],
    [k |-> 1, minSep |-> 3, tol |-> 100, lookback |-> 4, ready |-> 5, breakBars |-> 2]>>

PartsInit ==
  /\ part \in {"price", "trend", "views", "mining", "client", "cache", "conc"}
  /\ PriceInit /\ TrendInit /\ ViewInit /\ MiningInit /\ ClientInit
  /\ ConcInit /\ CacheInit /\ (part # "cache" => endpoint = Pulse)

PartsNext ==
  \/ /\ part = "price" /\ PriceNext
     /\ UNCHANGED <<part, trendVars, viewVars, miningVars, clientVars, cacheVars, concVars>>
  \/ /\ part = "trend" /\ TrendNext
     /\ UNCHANGED <<part, priceVars, viewVars, miningVars, clientVars, cacheVars, concVars>>
  \/ /\ part = "views" /\ ViewNext
     /\ UNCHANGED <<part, priceVars, trendVars, miningVars, clientVars, cacheVars, concVars>>
  \/ /\ part = "mining" /\ MiningNext
     /\ UNCHANGED <<part, priceVars, trendVars, viewVars, clientVars, cacheVars, concVars>>
  \/ /\ part = "client" /\ ClientNext
     /\ UNCHANGED <<part, priceVars, trendVars, viewVars, miningVars, cacheVars, concVars>>
  \/ /\ part = "cache" /\ CacheNext
     /\ UNCHANGED <<part, priceVars, trendVars, viewVars, miningVars, clientVars, concVars>>
  \/ /\ part = "conc" /\ ConcNext
     /\ UNCHANGED <<part, priceVars, trendVars, viewVars, miningVars, clientVars, cacheVars>>

PartsSpec == PartsInit /\ [][PartsNext]_<<part, priceVars, trendVars, viewVars, miningVars,
                                          clientVars, cacheVars, concVars>>

\* The parts whose records have a shape of their own keep it.
PartsTypeOK == PriceTypeOK /\ TrendTypeOK /\ MiningTypeOK
=============================================================================
