------------------------------ MODULE MCParams ------------------------------
EXTENDS Params, TLC

CONSTANTS t1, t2, u1, u2, obs

D == INSTANCE ParamValues

(* A double that may be set and an int that may not.                        *)
MCDesc == "gain" :> [type |-> "double", read_only |-> FALSE,
                     default |-> D!DoubleValue(2)]
          @@ "id" :> [type |-> "int", read_only |-> TRUE,
                      default |-> D!IntValue(1)]

(* 0.0000025 prints as 0.000002 and is read back as that.                   *)
MCInputs == {D!DoubleValue(5)}

Kv(k, s) == [key |-> k, is |-> s]
Msg(topic, kind, kvs) == [topic |-> topic, kind |-> kind, kvs |-> kvs]

MCWire == {Msg("set", "set", <<Kv("gain", D!DecText(3))>>),
           Msg("set", "set", <<Kv("id", D!IntText(2))>>),
           Msg("set", "bulk", <<Kv("gain", D!Empty), Kv("id", D!Empty)>>),
           Msg("export", "export", << >>),
           Msg("export", "reply", << >>)}

World(p, n, m, w) == [public |-> p, user |-> u1 :> n @@ u2 :> m, wire |-> w]
MCWorlds == {World(4, 0, 0, 0), World(0, 3, 1, 0), World(0, 3, 0, 1),
             World(0, 1, 0, 2), World(2, 1, 0, 0), World(1, 1, 0, 1)}
=============================================================================
