----------------------------- MODULE Descriptors -----------------------------
(***************************************************************************)
(* GET_DESCRIPTOR of cd/mu_fun.c over the descriptors of                   *)
(* examples/msd/mu_msdfn.c: which of the two buffers is searched, for what *)
(* type, which entry is taken, and how many bytes of it are sent.          *)
(***************************************************************************)
EXTENDS Naturals, SequencesExt, FiniteSetsExt

Entry(type, len, of) == [type |-> type, len |-> len, of |-> of]

\* The languages of string descriptor 0.
LangIds == <<"us", "au">>
wStringDescriptorCount == 3

\* MGC_aDescriptorData.  Each entry is named for what it is.
Standard ==
  << Entry("DEVICE", 18, "device"),
     Entry("STRING", 6, "languages"),
     Entry("STRING", 32, "us maker"), Entry("STRING", 10, "us product"), Entry("STRING", 26, "us serial"),
     Entry("STRING", 32, "au maker"), Entry("STRING", 22, "au product"), Entry("STRING", 26, "au serial"),
     Entry("CONFIG", 9, "config"), Entry("INTERFACE", 9, "interface"),
     Entry("ENDPOINT", 7, "in"), Entry("ENDPOINT", 7, "out"), Entry("OTG", 3, "otg") >>

\* MGC_aHighSpeedDescriptorData
HighSpeed ==
  << Entry("DEVICE_QUALIFIER", 10, "qualifier"),
     Entry("OTHER_SPEED", 9, "high config"), Entry("INTERFACE", 9, "high interface"),
     Entry("ENDPOINT", 7, "high in"), Entry("ENDPOINT", 7, "high out"), Entry("OTG", 3, "otg") >>

\* The bytes from entry k to the end of the buffer.
Rest(buffer, k) == FoldLeft(LAMBDA n, e : n + e.len, 0, SubSeq(buffer, k, Len(buffer)))

-----------------------------------------------------------------------------
(* The search *)

\* The buffer and the type that are searched for.
Buffer(bIsHighSpeed, bType) ==
  IF \/ ~bIsHighSpeed /\ bType \in {"DEVICE_QUALIFIER", "OTHER_SPEED"}
     \/ bIsHighSpeed /\ bType = "CONFIG"
  THEN HighSpeed ELSE Standard

bQueryType(bIsHighSpeed, bType) ==
  CASE bIsHighSpeed /\ bType = "DEVICE_QUALIFIER" -> "DEVICE"
    [] bIsHighSpeed /\ bType = "CONFIG" -> "OTHER_SPEED"
    [] bIsHighSpeed /\ bType = "OTHER_SPEED" -> "CONFIG"
    [] OTHER -> bType

\* The indices of the entries of the type, in their order.
OfType(buffer, type) ==
  SelectSeq([k \in DOMAIN buffer |-> k], LAMBDA k : buffer[k].type = type)

\* wWhich of a string is scaled by its language at the second string that is met.
\* A language that is not there ends the search.
Known(lang) == \E k \in DOMAIN LangIds : LangIds[k] = lang
Scaled(wWhich, lang) ==
  wWhich + wStringDescriptorCount * ((CHOOSE k \in DOMAIN LangIds : LangIds[k] = lang) - 1)

NotFound == 0

\* The place of the entry in the buffer.
Find(buffer, type, wWhich, lang) ==
  LET found == OfType(buffer, type)
      scales == type = "STRING" /\ wWhich # 0 /\ Len(found) > 1
      n == IF scales /\ Known(lang) THEN Scaled(wWhich, lang) ELSE wWhich
  IN  IF (scales /\ ~Known(lang)) \/ n >= Len(found) THEN NotFound ELSE found[n + 1]

\* What is sent: the entry the bytes are taken from, the type the first one is given, and
\* how many they are.  A configuration is sent with all that follows it in the buffer.
GetDescriptor(bIsHighSpeed, bType, wWhich, lang, wLength) ==
  LET buffer == Buffer(bIsHighSpeed, bType)
      query == bQueryType(bIsHighSpeed, bType)
      k == Find(buffer, query, wWhich, lang)
      whole == CASE query \in {"CONFIG", "OTHER_SPEED"} -> Rest(buffer, k)
                 [] bIsHighSpeed /\ bType = "DEVICE_QUALIFIER" -> HighSpeed[1].len
                 [] OTHER -> buffer[k].len
  IN  IF k = NotFound THEN [of |-> "none", type |-> "none", len |-> 0]
      ELSE [of |-> IF bIsHighSpeed /\ bType = "DEVICE_QUALIFIER" THEN HighSpeed[1].of
                   ELSE buffer[k].of,
            type |-> bType, len |-> Min({wLength, whole})]
=============================================================================
