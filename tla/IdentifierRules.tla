--------------------------- MODULE IdentifierRules ---------------------------
(***************************************************************************)
(* The check digits of an INN, an OGRN and an OGRNIP, as two parts of the  *)
(* program compute them: validate_counterparty_identifier, which guards    *)
(* monitors and favorites, and _inn_valid, _ogrn_valid and _ogrnip_valid   *)
(* of the public preflight.  zip(..., strict=True) raises ValueError when  *)
(* the digits and the weights differ in number.                            *)
(***************************************************************************)
EXTENDS Integers, Sequences, SequencesExt

CONSTANT Stems  \* for each type and length, stems without check digits

VARIABLES
  type, digits,  \* the identifier an operator submits
  preflight,     \* what the public preflight says of it
  monitoring     \* what save_monitoring or save_favorite does with it

vars == <<type, digits, preflight, monitoring>>

-----------------------------------------------------------------------------

Types == {"INN", "OGRN", "OGRNIP"}
CheckDigits == [INN |-> {1, 2}, OGRN |-> {1}, OGRNIP |-> {1}]

\* sum(int(d) * w for d, w in zip(ds, ws, strict=True)) % 11 % 10; -1 if zip raises.
Checksum(ds, ws) ==
  IF Len(ds) # Len(ws) THEN -1
  ELSE (FoldLeft(LAMBDA sum, i : sum + ds[i] * ws[i], 0, [i \in DOMAIN ds |-> i]) % 11) % 10

\* int(ds) % m, digit by digit.
Modulo(ds, m) == FoldLeft(LAMBDA rest, d : (rest * 10 + d) % m, 0, ds)

Front2(ds) == SubSeq(ds, 1, Len(ds) - 2)

\* validate_counterparty_identifier: "stored", or "refused" by a ValueError.
MonitoringINN(ds) ==
  \/ /\ Len(ds) = 10
     /\ Checksum(Front(ds), <<2, 4, 10, 3, 5, 9, 4, 6, 8>>) = Last(ds)
  \/ /\ Len(ds) = 12
     /\ Checksum(Front2(ds), <<7, 2, 4, 10, 3, 5, 9, 4, 6, 8, 0>>) = ds[11]
     /\ Checksum(Front(ds), <<3, 7, 2, 4, 10, 3, 5, 9, 4, 6, 8, 0>>) = ds[12]

\* _inn_valid
PreflightINN(ds) ==
  \/ /\ Len(ds) = 10
     /\ Checksum(ds, <<2, 4, 10, 3, 5, 9, 4, 6, 8, 0>>) = Last(ds)
  \/ /\ Len(ds) = 12
     /\ Checksum(ds, <<7, 2, 4, 10, 3, 5, 9, 4, 6, 8, 0, 0>>) = ds[11]
     /\ Checksum(ds, <<3, 7, 2, 4, 10, 3, 5, 9, 4, 6, 8, 0>>) = ds[12]

OGRNValid(ds) == Len(ds) = 13 /\ Modulo(Front(ds), 11) % 10 = Last(ds)
OGRNIPValid(ds) == Len(ds) = 15 /\ Modulo(Front(ds), 13) % 10 = Last(ds)

Registered(t, ds) == (t = "OGRN" /\ OGRNValid(ds)) \/ (t = "OGRNIP" /\ OGRNIPValid(ds))

-----------------------------------------------------------------------------

Init ==
  /\ type \in Types /\ digits = <<>>
  /\ preflight = "none" /\ monitoring = "none"

Submit ==
  /\ digits = <<>>
  /\ \E stem \in Stems[type], n \in CheckDigits[type] : \E check \in [1..n -> 0..9] :
       digits' = stem \o check
  /\ UNCHANGED <<type, preflight, monitoring>>

Preflight ==
  /\ digits # <<>> /\ preflight = "none"
  /\ preflight' = IF (type = "INN" /\ PreflightINN(digits)) \/ Registered(type, digits)
                  THEN "valid" ELSE "invalid"
  /\ UNCHANGED <<type, digits, monitoring>>

Monitor ==
  /\ digits # <<>> /\ monitoring = "none"
  /\ monitoring' = IF (type = "INN" /\ MonitoringINN(digits)) \/ Registered(type, digits)
                   THEN "stored" ELSE "refused"
  /\ UNCHANGED <<type, digits, preflight>>

Next == Submit \/ Preflight \/ Monitor

Spec == Init /\ [][Next]_vars

-----------------------------------------------------------------------------

\* "supported_identifier_types": every identifier that the public preflight
\* finds valid, an INN of 10 or 12 digits among them, can be monitored.
SupportedIsMonitored ==
  preflight = "valid" /\ monitoring # "none" => monitoring = "stored"

=============================================================================
