----------------------------- MODULE MCFunction -----------------------------
(* Instances of Function: what hosts ask, and what the search of descriptors should find. *)
EXTENDS Function

HostsAll == AllHosts
OnlyDisk == {"disk"}

StatusOf(recip, index) == Request("GET_STATUS", recip, "none", 0, index, 2)
Feature(op, recip, what, index) == Request(op, recip, what, 0, index, 0)

RequestsAll ==
  { StatusOf("device", "none"), StatusOf("endpoint", "tx"), StatusOf("endpoint", "other"),
    Feature("SET_FEATURE", "device", "REMOTE_WAKEUP", "none"),
    Feature("CLEAR_FEATURE", "device", "REMOTE_WAKEUP", "none"),
    Feature("SET_FEATURE", "device", "TEST_MODE", "none"),
    Feature("SET_FEATURE", "endpoint", "HALT", "tx"), ClearHaltRequest("tx"),
    Feature("SET_FEATURE", "interface", "none", "none"),
    Simple("SET_ADDRESS", Address), Simple("SET_CONFIGURATION", 0),
    Simple("SET_CONFIGURATION", 1), Simple("SET_CONFIGURATION", 2),
    Request("GET_CONFIGURATION", "device", "none", 0, "none", 1),
    Request("GET_INTERFACE", "interface", "none", 0, "none", 1),
    Get("DEVICE", 0, "none", 8), Get("CONFIG", 0, "none", 9), Get("CONFIG", 0, "none", 255),
    Get("DEVICE_QUALIFIER", 0, "none", 10), Get("OTHER_SPEED", 0, "none", 255),
    Get("STRING", 0, "none", 255), Get("STRING", 2, "us", 255), Get("STRING", 2, "au", 255),
    Get("STRING", 2, "fr", 255), BotResetRequest, GetMaxLun,
    Request("VENDOR", "device", "none", 0, "none", 4),
    Request("SET_DESCRIPTOR", "device", "none", 0, "none", 72) }

CommandsAll ==
  { Cbw("READ10", "inside", TRUE, 128, 0), Cbw("WRITE10", "inside", FALSE, 128, 0),
    Cbw("WRITE10", "beyond", FALSE, 128, 0), Cbw("INQUIRY", "standard", TRUE, 96, 96),
    Cbw("INQUIRY", "unknown", TRUE, 36, 36),
    Cbw("REQUEST_SENSE", "none", TRUE, 18, 18), Cbw("TEST_UNIT_READY", "none", FALSE, 0, 0),
    Cbw("READ_CAPACITY", "none", TRUE, 8, 0), Cbw("RD_FMT_CAPC", "none", TRUE, 252, 0),
    Cbw("MODE_SENSE", "known", TRUE, 192, 192), Cbw("MODE_SENSE", "unknown", TRUE, 192, 192),
    Cbw("MODE_SELECT", "none", FALSE, 24, 24), Cbw("START_STOP_UNIT", "start", FALSE, 0, 0),
    Cbw("START_STOP_UNIT", "stop", FALSE, 0, 0), Cbw("VERIFY", "bytes", FALSE, 128, 0),
    Cbw("PREVENT_ALLOW", "none", FALSE, 0, 0),
    Cbw("WRITE_BUFFER", "none", FALSE, 0, 0),
    Cbw("UNKNOWN", "none", TRUE, 36, 0), Cbw("UNKNOWN", "none", FALSE, 128, 0) }

-----------------------------------------------------------------------------
(* What chapter 9 asks of GET_DESCRIPTOR, written without the buffers: the descriptor of  *)
(* each type and index, and its length.                                                   *)

Strings == [us |-> <<[of |-> "us maker", len |-> 32], [of |-> "us product", len |-> 10],
                     [of |-> "us serial", len |-> 26]>>,
            au |-> <<[of |-> "au maker", len |-> 32], [of |-> "au product", len |-> 22],
                     [of |-> "au serial", len |-> 26]>>]
Current(bIsHighSpeed) == [of |-> IF bIsHighSpeed THEN "high config" ELSE "config", len |-> 35]
None == [of |-> "none", len |-> 0]

Asked(bIsHighSpeed, type, n, lang) ==
  CASE n = 0 /\ type = "DEVICE" -> [of |-> "device", len |-> 18]
    [] n = 0 /\ type = "DEVICE_QUALIFIER" -> [of |-> "qualifier", len |-> 10]
    [] n = 0 /\ type = "CONFIG" -> Current(bIsHighSpeed)
    [] n = 0 /\ type = "OTHER_SPEED" -> Current(~bIsHighSpeed)
    [] n = 0 /\ type = "STRING" -> [of |-> "languages", len |-> 6]
    [] n > 0 /\ type = "STRING" /\ lang \in DOMAIN Strings -> Strings[lang][n]
    [] OTHER -> None

\* The search over the two buffers, with its exchange of types at high speed and its scaling
\* of string indices, finds what is asked for, for every type, index that a language has,
\* language, and length.
ASSUME DescriptorsAreFound ==
  \A bIsHighSpeed \in BOOLEAN, n \in 0 .. wStringDescriptorCount, lang \in {"us", "au", "fr"},
     type \in {"DEVICE", "CONFIG", "STRING", "DEVICE_QUALIFIER", "OTHER_SPEED"},
     wLength \in {0, 2, 8, 9, 18, 64, 255} :
    LET g == GetDescriptor(bIsHighSpeed, type, n, lang, wLength)
        a == Asked(bIsHighSpeed, type, n, lang)
    IN  /\ g.of = a.of /\ g.len = Least(wLength, a.len)
        /\ g.of # "none" => g.type = type
=============================================================================
