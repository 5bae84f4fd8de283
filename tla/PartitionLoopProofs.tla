------------------------ MODULE PartitionLoopProofs ------------------------
(***************************************************************************)
(* Proofs about the loops of partition_connection_options, for any names,  *)
(* values and field sets: at no step is a value in neither set, and the    *)
(* fields that remain at the end are those Partition gives.                *)
(*                                                                         *)
(* What the loops have done so far is said by three sets: the Connection   *)
(* values scanned, the names copied and the names erased.                  *)
(***************************************************************************)
EXTENDS PartitionLoop, PartitionProofs, SequenceTheorems

FieldValues == Values \cup Seq(Names \cup {Blank})

Types ==
  /\ given \in Fields
  /\ in_fields \in [Names -> Seq(FieldValues)]
  /\ out_fields \in [Names -> Seq(FieldValues)]
  /\ options \in Seq(Names)
  /\ phase \in {"scan", "parse", "copy", "erase", "returned"}
  /\ at \in Nat \ {0} /\ pos \in Nat \ {0}

Scanning == phase \in {"scan", "parse"}

Scanned ==
  IF Scanning THEN {k \in DOMAIN given[Connection] : k < at} ELSE DOMAIN given[Connection]

\* The options before the one at n.
Named(n) == {options[j] : j \in {i \in DOMAIN options : i < n}}
AllNamed == {options[j] : j \in DOMAIN options}

Copied ==
  IF Scanning THEN {} ELSE IF phase = "copy" THEN Named(at) ELSE AllNamed

Erased ==
  IF phase = "erase" THEN Named(at)
  ELSE IF phase = "returned" THEN AllNamed \cup {Connection} ELSE {}

\* The value x of the field n is in out_fields.
Has(n, x) == \E j \in DOMAIN out_fields[n] : out_fields[n][j] = x

Moved ==
  /\ in_fields = [n \in Names |-> IF n \in Erased THEN <<>> ELSE given[n]]
  /\ \A k \in Scanned : \/ IsEmptyValue(given[Connection][k])
                        \/ Has(Connection, given[Connection][k])
  /\ \A n \in Copied : \A i \in DOMAIN given[n] : Has(n, given[n][i])

\* The element i of the Connection value k was passed by the parse.
Past(k, i) ==
  \/ k \in Scanned
  \/ phase = "parse" /\ k = at /\ i < pos

\* The parse of the value at hand: it goes on until a blank follows an option.
Parsing ==
  phase = "parse" =>
    /\ at \in DOMAIN given[Connection] /\ ~IsEmptyValue(given[Connection][at])
    /\ begun <=> \E j \in 1..pos - 1 : given[Connection][at][j] # Blank
    /\ ~\E j, k \in 1..pos - 1 : /\ j < k
                                /\ given[Connection][at][j] # Blank
                                /\ given[Connection][at][k] = Blank

\* The option n is read at the element i of the Connection value k.
ReadAt(n, k, i) ==
  /\ k \in DOMAIN given[Connection] /\ ~IsEmptyValue(given[Connection][k])
  /\ i \in ParsedAt(given[Connection][k]) /\ given[Connection][k][i] = n

OptionsRead ==
  \A n \in Names : n \in AllNamed <=> \E k, i \in Nat : ReadAt(n, k, i) /\ Past(k, i)

Inv == Types /\ Moved /\ Parsing /\ OptionsRead

\* A step that passes no option.
SameReads ==
  \A n \in Names, k \in Nat, i \in Nat :
    ReadAt(n, k, i)' /\ Past(k, i)' <=> ReadAt(n, k, i) /\ Past(k, i)

\* A step that passes the option at the element pos of the value.
OneMoreRead ==
  \A n \in Names, k \in Nat, i \in Nat :
    ReadAt(n, k, i)' /\ Past(k, i)' <=>
      (n = val[pos] /\ k = at /\ i = pos) \/ (ReadAt(n, k, i) /\ Past(k, i))

-----------------------------------------------------------------------------
LEMMA GivenTypes ==
  ASSUME NEW f \in Fields
  PROVE  /\ f \in [Names -> Seq(FieldValues)]
         /\ f[Connection] \in Seq(FieldValues)
         /\ DOMAIN f[Connection] = 1..Len(f[Connection]) /\ Len(f[Connection]) \in Nat
         /\ \A k \in DOMAIN f[Connection] :
              /\ f[Connection][k] \in FieldValues
              /\ f[Connection][k] \in Seq(Names \cup {Blank})
              /\ Len(f[Connection][k]) \in Nat
              /\ DOMAIN f[Connection][k] = 1..Len(f[Connection][k])
              /\ ParsedAt(f[Connection][k]) \subseteq Nat
BY PartitionAssumption DEF Fields, FieldValues, ParsedAt

LEMMA InvInit == Init => Inv
<1> SUFFICES ASSUME Init PROVE Inv
  OBVIOUS
<1>1. given \in Fields /\ given \in [Names -> Seq(FieldValues)]
  BY InputsAssumption, GivenTypes DEF Init
<1>2. NoFields \in [Names -> Seq(FieldValues)]
  BY DEF NoFields
<1>3. Types
  <2>1. options \in Seq(Names)  BY DEF Init
  <2> QED  BY <1>1, <1>2, <2>1 DEF Init, Types
<1>4. Scanned = {} /\ Copied = {} /\ Erased = {} /\ AllNamed = {}
  BY <1>1, GivenTypes DEF Init, Scanned, Scanning, Copied, Erased, AllNamed
<1>5. Moved  BY <1>1, <1>4 DEF Moved, Init
<1>6. Parsing  BY DEF Parsing, Init
<1>7. OptionsRead  BY <1>4 DEF OptionsRead, Past, Init
<1> QED  BY <1>3, <1>5, <1>6, <1>7 DEF Inv

-----------------------------------------------------------------------------
\* What one more element of a range adds.
LEMMA ScannedNext ==
  ASSUME Types, at \in DOMAIN given[Connection], Scanning, Scanning', at' = at + 1,
         UNCHANGED given
  PROVE  Scanned' = Scanned \cup {at}
BY GivenTypes DEF Types, Scanned, Scanning

LEMMA NamedNext ==
  ASSUME Types, at \in DOMAIN options
  PROVE  Named(at + 1) = Named(at) \cup {options[at]}
<1>1. {i \in DOMAIN options : i < at + 1} = {i \in DOMAIN options : i < at} \cup {at}
  BY DEF Types
<1> QED  BY <1>1 DEF Named

LEMMA NamedAll == ASSUME Types, at > Len(options) PROVE Named(at) = AllNamed
BY DEF Types, Named, AllNamed

LEMMA NamedNone == ASSUME Types PROVE Named(1) = {}
BY DEF Types, Named

LEMMA AllNamedNext ==
  ASSUME Types, NEW n \in Names, options' = Append(options, n)
  PROVE  AllNamed' = AllNamed \cup {n} /\ options' \in Seq(Names)
<1>1. /\ options' \in Seq(Names) /\ Len(options) \in Nat
      /\ DOMAIN options = 1..Len(options) /\ DOMAIN options' = DOMAIN options \cup {Len(options) + 1}
      /\ options'[Len(options) + 1] = n /\ \A i \in DOMAIN options : options'[i] = options[i]
  BY DEF Types
<1> QED  BY <1>1 DEF AllNamed

\* A field set to which values are added at the end of a field.
LEMMA HasMore ==
  ASSUME Types, NEW n \in Names, NEW more \in Seq(FieldValues),
         out_fields' = [out_fields EXCEPT ![n] = @ \o more]
  PROVE  /\ out_fields' \in [Names -> Seq(FieldValues)]
         /\ \A m \in Names, x \in FieldValues : Has(m, x) => Has(m, x)'
         /\ \A i \in DOMAIN more : Has(n, more[i])'
<1> DEFINE old == out_fields[n]
<1>1. old \in Seq(FieldValues) /\ out_fields'[n] = old \o more
  BY DEF Types
<1>2. old \o more \in Seq(FieldValues)
  BY <1>1
<1>3. out_fields' \in [Names -> Seq(FieldValues)]
  BY <1>1, <1>2 DEF Types
<1>4. /\ Len(old) \in Nat /\ Len(more) \in Nat
      /\ DOMAIN old = 1..Len(old) /\ DOMAIN more = 1..Len(more)
      /\ DOMAIN (old \o more) = 1..Len(old) + Len(more)
      /\ \A j \in 1..Len(old) : (old \o more)[j] = old[j]
      /\ \A j \in 1..Len(more) : (old \o more)[Len(old) + j] = more[j]
  BY <1>1
<1>5. ASSUME NEW m \in Names, NEW x \in FieldValues, Has(m, x) PROVE Has(m, x)'
  <2>1. PICK j \in DOMAIN out_fields[m] : out_fields[m][j] = x  BY <1>5 DEF Has
  <2>2. CASE m = n
    <3>1. j \in DOMAIN (old \o more) /\ (old \o more)[j] = x  BY <1>4, <2>1, <2>2
    <3> QED  BY <1>1, <2>2, <3>1 DEF Has
  <2>3. CASE m # n
    <3>1. out_fields'[m] = out_fields[m]  BY <2>3 DEF Types
    <3> QED  BY <2>1, <3>1 DEF Has
  <2> QED  BY <2>2, <2>3
<1>6. ASSUME NEW i \in DOMAIN more PROVE Has(n, more[i])'
  <2>1. /\ Len(old) + i \in DOMAIN (old \o more)
        /\ (old \o more)[Len(old) + i] = more[i]
    BY <1>4
  <2> QED  BY <1>1, <2>1 DEF Has
<1> QED  BY <1>3, <1>5, <1>6

-----------------------------------------------------------------------------
\* While the scan runs nothing is erased, so it sees the fields as given.
LEMMA ScanFacts ==
  ASSUME Inv, Scanning
  PROVE  /\ in_fields = given /\ Copied = {} /\ Erased = {}
         /\ val = given[Connection][at]
<1>1. Copied = {} /\ Erased = {}  BY DEF Scanning, Copied, Erased
<1>2. in_fields = given
  BY <1>1, GivenTypes DEF Inv, Types, Moved
<1> QED  BY <1>1, <1>2 DEF val

LEMMA ScanFieldInv == ASSUME Inv, ScanField PROVE Inv' /\ SameReads
<1>1. /\ Types /\ phase = "scan" /\ Scanning /\ Scanning' /\ at \in DOMAIN given[Connection]
      /\ UNCHANGED <<given, in_fields, out_fields, options>> /\ UNCHANGED AllNamed
      /\ in_fields = given /\ Erased' = {} /\ Copied' = {}
  <2>1. Types /\ phase = "scan" /\ Scanning /\ Scanning' /\ in_fields = given
    BY ScanFacts DEF Inv, ScanField, Scanning
  <2>2. at \in DOMAIN given[Connection]
    BY <2>1, GivenTypes DEF Types, ScanField
  <2> QED  BY <2>1, <2>2 DEF ScanField, AllNamed, Scanning, Erased, Copied
<1>2. CASE IsEmptyValue(val)
  <2>1. at' = at + 1 /\ UNCHANGED <<phase, pos, begun>>  BY <1>2 DEF ScanField, parser
  <2>2. IsEmptyValue(given[Connection][at])  BY <1>1, <1>2 DEF val
  <2>3. Scanned' = Scanned \cup {at}  BY <1>1, <2>1, ScannedNext
  <2>4. Types'  BY <1>1, <2>1 DEF Types
  <2>5. Moved'
    BY <1>1, <2>2, <2>3, GivenTypes DEF Inv, Moved, Has, Types
  <2>6. Parsing'  BY <1>1, <2>1 DEF Parsing
  <2>7. \A n, k, i : ReadAt(n, k, i)' /\ Past(k, i)' <=> ReadAt(n, k, i) /\ Past(k, i)
    BY <1>1, <2>1, <2>2, <2>3 DEF ReadAt, Past
  <2> QED  BY <1>1, <2>4, <2>5, <2>6, <2>7 DEF Inv, OptionsRead, SameReads
<1>3. CASE ~IsEmptyValue(val)
  <2>1. phase' = "parse" /\ at' = at /\ pos' = 1 /\ begun' = FALSE  BY <1>3 DEF ScanField
  <2>2. ~IsEmptyValue(given[Connection][at])  BY <1>1, <1>3 DEF val
  <2>3. Scanned' = Scanned  BY <1>1, <2>1 DEF Scanned
  <2>4. Types'  BY <1>1, <2>1 DEF Types
  <2>5. Moved'
    BY <1>1, <2>3, GivenTypes DEF Inv, Moved, Has, Types
  <2>6. Parsing'  BY <1>1, <2>1, <2>2 DEF Parsing
  <2>7. ASSUME NEW n, NEW k \in Nat, NEW i \in Nat
        PROVE  ReadAt(n, k, i)' /\ Past(k, i)' <=> ReadAt(n, k, i) /\ Past(k, i)
    <3>1. ReadAt(n, k, i) => i >= 1
      BY <1>1, GivenTypes DEF ReadAt, ParsedAt, Types
    <3> QED  BY <1>1, <2>1, <2>3, <3>1 DEF ReadAt, Past
  <2> QED  BY <1>1, <2>4, <2>5, <2>6, <2>7 DEF Inv, OptionsRead, SameReads
<1> QED  BY <1>2, <1>3

\* While a value is parsed it is the one the scan is at.
LEMMA ParseFacts ==
  ASSUME Inv, phase = "parse"
  PROVE  /\ Types /\ Scanning /\ in_fields = given /\ at \in DOMAIN given[Connection]
         /\ val = given[Connection][at] /\ val \in Seq(Names \cup {Blank})
         /\ Len(val) \in Nat /\ DOMAIN val = 1..Len(val) /\ ~IsEmptyValue(val)
         /\ begun <=> \E j \in 1..pos - 1 : val[j] # Blank
         /\ ~\E j, k \in 1..pos - 1 : j < k /\ val[j] # Blank /\ val[k] = Blank
<1>1. Scanning /\ Types  BY DEF Scanning, Inv
<1>2. in_fields = given /\ val = given[Connection][at]  BY <1>1, ScanFacts
<1>3. at \in DOMAIN given[Connection] /\ ~IsEmptyValue(val)  BY <1>2 DEF Inv, Parsing
<1>4. val \in Seq(Names \cup {Blank})  BY <1>1, <1>2, <1>3, GivenTypes DEF Types
<1>5. Len(val) \in Nat /\ DOMAIN val = 1..Len(val)  BY <1>4
<1>6. /\ begun <=> \E j \in 1..pos - 1 : val[j] # Blank
      /\ ~\E j, k \in 1..pos - 1 : j < k /\ val[j] # Blank /\ val[k] = Blank
  BY <1>2 DEF Inv, Parsing
<1> QED  BY <1>1, <1>2, <1>3, <1>4, <1>5, <1>6

\* What stays true of the field sets while a value is parsed.
LEMMA MovedInParse ==
  ASSUME Inv, phase = "parse", phase' = "parse",
         UNCHANGED <<given, in_fields, out_fields, at>>
  PROVE  Moved' /\ Scanned' = Scanned
<1>1. Types /\ Scanning /\ Scanning' /\ Copied' = {} /\ Erased' = {} /\ in_fields = given
  BY ParseFacts DEF Scanning, Copied, Erased
<1>2. Scanned' = Scanned  BY <1>1 DEF Scanned
<1> QED  BY <1>1, <1>2, GivenTypes DEF Inv, Types, Moved, Has

LEMMA SkipBlankInv == ASSUME Inv, SkipBlank PROVE Inv' /\ SameReads
<1>1. /\ phase = "parse" /\ phase' = "parse" /\ pos' = pos + 1 /\ Takes /\ val[pos] = Blank
      /\ UNCHANGED <<given, in_fields, out_fields, options, at, begun>>
  BY DEF SkipBlank
<1>2. /\ Types /\ pos \in Nat /\ pos >= 1 /\ val = given[Connection][at]
      /\ at \in DOMAIN given[Connection] /\ ~IsEmptyValue(val)
      /\ ~begun /\ \A j \in 1..pos - 1 : val[j] = Blank
  BY <1>1, ParseFacts DEF Takes, Types
<1>3. Types'  BY <1>1, <1>2 DEF Types
<1>4. Moved' /\ Scanned' = Scanned  BY <1>1, MovedInParse
<1>5. \A j \in 1..pos' - 1 : val[j] = Blank  BY <1>1, <1>2
<1>6. Parsing'
  <2>1. val' = val /\ val' = given'[Connection][at']  BY <1>1, <1>2 DEF val
  <2> QED  BY <1>1, <1>2, <1>5, <2>1 DEF Parsing
<1>7. ASSUME NEW n \in Names, NEW k \in Nat, NEW i \in Nat
      PROVE  ReadAt(n, k, i)' /\ Past(k, i)' <=> ReadAt(n, k, i) /\ Past(k, i)
  <2>1. ReadAt(n, k, i) <=> ReadAt(n, k, i)'  BY <1>1 DEF ReadAt
  <2>2. ReadAt(n, at, i) => i # pos
    BY <1>1, <1>2 DEF ReadAt, ParsedAt
  <2> QED  BY <1>1, <1>2, <1>4, <2>1, <2>2 DEF Past
<1> QED  BY <1>1, <1>3, <1>4, <1>6, <1>7 DEF Inv, OptionsRead, AllNamed, SameReads

LEMMA ReadOptionInv == ASSUME Inv, ReadOption PROVE Inv' /\ OneMoreRead
<1> DEFINE o == val[pos]
<1>1. /\ phase = "parse" /\ phase' = "parse" /\ pos' = pos + 1 /\ Takes /\ o # Blank
      /\ options' = Append(options, o) /\ begun'
      /\ UNCHANGED <<given, in_fields, out_fields, at>>
  BY DEF ReadOption
<1>2. /\ Types /\ pos \in DOMAIN val /\ pos \in Nat /\ pos >= 1 /\ val = given[Connection][at]
      /\ at \in DOMAIN given[Connection] /\ at \in Nat /\ ~IsEmptyValue(val) /\ o \in Names
      /\ ~\E j, k \in 1..pos - 1 : j < k /\ val[j] # Blank /\ val[k] = Blank
  BY <1>1, ParseFacts DEF Takes, Types
<1>3. AllNamed' = AllNamed \cup {o} /\ options' \in Seq(Names)
  <2> HIDE DEF o
  <2> QED  BY <1>1, <1>2, AllNamedNext
<1>4. Types'  BY <1>1, <1>2, <1>3 DEF Types
<1>5. Moved' /\ Scanned' = Scanned  BY <1>1, MovedInParse
<1>6. ~\E j, k \in 1..pos : j < k /\ val[j] # Blank /\ val[k] = Blank
  <2> SUFFICES ASSUME NEW j \in 1..pos, NEW k \in 1..pos, j < k, val[j] # Blank, val[k] = Blank
               PROVE  FALSE
    OBVIOUS
  <2>1. k # pos  BY <1>1
  <2>2. j \in 1..pos - 1 /\ k \in 1..pos - 1  BY <1>2, <2>1
  <2> QED  BY <1>2, <2>2
<1>7. pos \in ParsedAt(val)  BY <1>1, <1>2, <1>6, ParsedNext
<1>8. Parsing'
  <2>1. val' = val /\ val' = given'[Connection][at']  BY <1>1, <1>2 DEF val
  <2>2. 1..pos' - 1 = 1..pos /\ pos \in 1..pos  BY <1>1, <1>2
  <2> QED  BY <1>1, <1>2, <1>6, <2>1, <2>2 DEF Parsing
<1>9. OneMoreRead
  <2>1. \A n, k, i : ReadAt(n, k, i) <=> ReadAt(n, k, i)'  BY <1>1 DEF ReadAt
  <2>2. \A k, i \in Nat : Past(k, i)' <=> Past(k, i) \/ (k = at /\ i = pos)
    BY <1>1, <1>2, <1>5 DEF Past
  <2>3. \A n \in Names : ReadAt(n, at, pos) <=> n = o
    BY <1>2, <1>7 DEF ReadAt
  <2> HIDE DEF o
  <2>4. ASSUME NEW n \in Names, NEW k \in Nat, NEW i \in Nat
        PROVE  ReadAt(n, k, i)' /\ Past(k, i)' <=>
                 (n = o /\ k = at /\ i = pos) \/ (ReadAt(n, k, i) /\ Past(k, i))
    BY <2>1, <2>2, <2>3
  <2> QED  BY <2>4 DEF OneMoreRead, o
<1>10. OptionsRead'
  <2>1. ASSUME NEW n \in Names
        PROVE  (\E k, i \in Nat : ReadAt(n, k, i)' /\ Past(k, i)') <=>
                 n = o \/ \E k, i \in Nat : ReadAt(n, k, i) /\ Past(k, i)
    BY <1>2, <1>9 DEF OneMoreRead
  <2> QED  BY <1>1, <1>3, <2>1 DEF OptionsRead, Inv
<1> QED  BY <1>4, <1>5, <1>8, <1>9, <1>10 DEF Inv

LEMMA ParseEndsInv == ASSUME Inv, ParseEnds PROVE Inv' /\ SameReads
\* The value, as a constant: val' is the next one.
<1> PICK w : w = val
  OBVIOUS
<1>1. /\ phase = "parse" /\ phase' = "scan" /\ at' = at + 1 /\ ~Takes
      /\ out_fields' = [out_fields EXCEPT ![Connection] = Append(@, w)]
      /\ UNCHANGED <<given, in_fields, options, pos, begun>>
  BY DEF ParseEnds, parser
<1>2. /\ Types /\ Scanning /\ Scanning' /\ pos \in Nat /\ pos >= 1
      /\ val = given[Connection][at] /\ Len(val) \in Nat /\ DOMAIN val = 1..Len(val)
      /\ at \in DOMAIN given[Connection] /\ val \in FieldValues /\ in_fields = given
      /\ begun <=> \E j \in 1..pos - 1 : val[j] # Blank
  <2>1. Types /\ pos \in Nat /\ pos >= 1 /\ Scanning /\ Scanning'
    BY <1>1, ParseFacts DEF Types, Scanning
  <2>2. val \in FieldValues  BY <1>1, ParseFacts DEF FieldValues
  <2> QED  BY <1>1, <2>1, <2>2, ParseFacts
<1>3. Scanned' = Scanned \cup {at} /\ Copied' = {} /\ Erased' = {}
  BY <1>1, <1>2, ScannedNext DEF Copied, Erased
<1>4. /\ out_fields' \in [Names -> Seq(FieldValues)]
      /\ \A x \in FieldValues : Has(Connection, x) => Has(Connection, x)'
      /\ Has(Connection, w)'
  <2>1. out_fields' = [out_fields EXCEPT ![Connection] = @ \o <<w>>]
    <3>1. out_fields[Connection] \in Seq(FieldValues)  BY <1>2, PartitionAssumption DEF Types
    <3>2. Append(out_fields[Connection], w) = out_fields[Connection] \o <<w>>
      <4>1. w \in FieldValues  BY <1>2
      <4> QED  BY <3>1, <4>1, AppendIsConcat
    <3> QED  BY <1>1, <3>2
  <2>2. <<w>> \in Seq(FieldValues) /\ 1 \in DOMAIN <<w>> /\ <<w>>[1] = w  BY <1>2
  <2>3. /\ out_fields' \in [Names -> Seq(FieldValues)]
        /\ \A m \in Names, x \in FieldValues : Has(m, x) => Has(m, x)'
        /\ \A i \in DOMAIN <<w>> : Has(Connection, <<w>>[i])'
    BY <1>2, <2>1, <2>2, HasMore, PartitionAssumption
  <2>4. Has(Connection, w)'
    <3>1. Has(Connection, <<w>>[1])'  BY <2>2, <2>3
    <3> QED  BY <2>2, <3>1 DEF Has
  <2> QED  BY <1>1, <2>3, <2>4, PartitionAssumption DEF Has
<1>5. Types'  BY <1>1, <1>2, <1>4 DEF Types
<1>6. Moved'
  <2>1. given' \in Fields /\ given \in Fields  BY <1>1, <1>2 DEF Types
  <2>2. in_fields' = [n \in Names |-> IF n \in Erased' THEN <<>> ELSE given'[n]]
    BY <1>1, <1>2, <1>3, <2>1, GivenTypes
  <2>3. ASSUME NEW k \in Scanned'
        PROVE  IsEmptyValue(given'[Connection][k]) \/ Has(Connection, given[Connection][k])'
    <3>1. CASE k = at  BY <1>1, <1>2, <1>4, <3>1 DEF Has
    <3>2. CASE k \in Scanned
      <4>1. given[Connection][k] \in FieldValues
        BY <2>1, <3>2, GivenTypes DEF Scanned
      <4> QED  BY <1>1, <1>4, <3>2, <4>1 DEF Inv, Moved
    <3> QED  BY <1>3, <3>1, <3>2
  <2> QED  BY <1>1, <1>3, <2>2, <2>3 DEF Moved, Has
<1>7. ASSUME NEW i \in Nat, i >= pos PROVE i \notin ParsedAt(val)
  <2>1. CASE pos > Len(val)  BY <1>2, <1>7, <2>1 DEF ParsedAt
  <2>2. CASE pos <= Len(val)
    <3>1. val[pos] = Blank /\ begun  BY <1>1, <2>2 DEF Takes
    <3>2. PICK j \in 1..pos - 1 : val[j] # Blank  BY <1>2, <3>1
    <3>3. j \in 1..pos /\ j < pos  BY <1>2
    <3> QED  BY <1>2, <1>7, <3>1, <3>2, <3>3, ParsedNoMore
  <2> QED  BY <1>2, <2>1, <2>2
<1>8. ASSUME NEW n \in Names, NEW k \in Nat, NEW i \in Nat
      PROVE  ReadAt(n, k, i)' /\ Past(k, i)' <=> ReadAt(n, k, i) /\ Past(k, i)
  <2>1. ReadAt(n, k, i) <=> ReadAt(n, k, i)'  BY <1>1 DEF ReadAt
  <2>2. ReadAt(n, at, i) => i < pos  BY <1>2, <1>7 DEF ReadAt
  <2>3. Past(k, i)' <=> k \in Scanned \/ k = at  BY <1>1, <1>3 DEF Past
  <2>4. Past(k, i) <=> k \in Scanned \/ (k = at /\ i < pos)  BY <1>1 DEF Past
  <2> QED  BY <2>1, <2>2, <2>3, <2>4
<1> QED  BY <1>1, <1>5, <1>6, <1>8 DEF Inv, OptionsRead, AllNamed, Parsing, SameReads

-----------------------------------------------------------------------------
\* Past the scan every element has been passed, and the options stay.
LEMMA OptionsStay ==
  ASSUME Inv, phase # "parse", ~Scanning', UNCHANGED <<given, options>>,
         Scanned = DOMAIN given[Connection]
  PROVE  Scanned' = Scanned /\ Parsing' /\ OptionsRead' /\ AllNamed' = AllNamed /\ SameReads
<1>1. Scanned' = Scanned /\ AllNamed' = AllNamed /\ Parsing'
  BY DEF Scanned, AllNamed, Parsing, Scanning
<1>2. \A n, k, i : ReadAt(n, k, i)' /\ Past(k, i)' <=> ReadAt(n, k, i) /\ Past(k, i)
  BY <1>1 DEF ReadAt, Past
<1> QED  BY <1>1, <1>2 DEF Inv, OptionsRead, SameReads

LEMMA ScanEndsInv == ASSUME Inv, ScanEnds PROVE Inv' /\ SameReads
<1>1. /\ Types /\ Scanning /\ phase = "scan" /\ phase' = "copy" /\ at' = 1 /\ in_fields = given
      /\ at > Len(given[Connection])
      /\ UNCHANGED <<given, in_fields, out_fields, options, pos, begun>>
  BY ScanFacts DEF ScanEnds, parser, Scanning, Inv
<1>2. Scanned = DOMAIN given[Connection] /\ ~Scanning'
  BY <1>1, GivenTypes DEF Types, Scanned, Scanning
<1>3. Scanned' = Scanned /\ Parsing' /\ OptionsRead' /\ SameReads  BY <1>1, <1>2, OptionsStay
<1>4. Types'  BY <1>1 DEF Types
<1>5. Copied' = {} /\ Erased' = {}
  BY <1>1, <1>2, <1>4, NamedNone DEF Copied, Erased, Named
<1>6. Moved'
  BY <1>1, <1>3, <1>5, GivenTypes DEF Inv, Moved, Has, Types
<1> QED  BY <1>3, <1>4, <1>6 DEF Inv

LEMMA CopyFieldsInv == ASSUME Inv, CopyFields PROVE Inv' /\ SameReads
\* The option, as a constant.
<1> PICK o : o = options[at]
  OBVIOUS
<1>1. /\ Types /\ phase = "copy" /\ phase' = "copy" /\ at' = at + 1 /\ ~Scanning /\ ~Scanning'
      /\ at \in DOMAIN options /\ o \in Names
      /\ UNCHANGED <<given, in_fields, options, pos, begun>>
  BY DEF CopyFields, parser, Scanning, Inv, Types
<1>2. Scanned = DOMAIN given[Connection] /\ Copied = Named(at) /\ Erased = {} /\ Erased' = {}
  BY <1>1 DEF Scanned, Copied, Erased, Scanning
<1>3. in_fields = given
  BY <1>1, <1>2, GivenTypes DEF Inv, Moved, Types
<1>4. out_fields' = [out_fields EXCEPT ![o] = @ \o given[o]] /\ given[o] \in Seq(FieldValues)
  BY <1>1, <1>3, GivenTypes DEF CopyFields, Types
<1>5. /\ out_fields' \in [Names -> Seq(FieldValues)]
      /\ \A m \in Names, x \in FieldValues : Has(m, x) => Has(m, x)'
      /\ \A i \in DOMAIN given[o] : Has(o, given[o][i])'
  <2> PICK more : more = given[o]
    OBVIOUS
  <2>1. /\ out_fields' \in [Names -> Seq(FieldValues)]
        /\ \A m \in Names, x \in FieldValues : Has(m, x) => Has(m, x)'
        /\ \A i \in DOMAIN more : Has(o, more[i])'
    BY <1>1, <1>4, HasMore
  <2> QED  BY <1>1, <2>1 DEF Has
<1>6. Scanned' = Scanned /\ Parsing' /\ OptionsRead' /\ SameReads  BY <1>1, <1>2, OptionsStay
<1>7. Copied' = Copied \cup {o}
  BY <1>1, <1>2, NamedNext DEF Copied, Named
<1>8. Types'  BY <1>1, <1>5 DEF Types
<1>9. Moved'
  <2>1. \A n \in Names : \A i \in DOMAIN given[n] : given[n][i] \in FieldValues
    BY <1>1, GivenTypes DEF Types
  <2>2. ASSUME NEW n \in Copied', NEW i \in DOMAIN given[n] PROVE Has(n, given[n][i])'
    <3>1. CASE n = o  BY <1>1, <1>5, <3>1 DEF Has
    <3>2. CASE n \in Copied
      <4>1. n \in Names  BY <1>1, <1>2, <3>2 DEF Named, Types
      <4>2. Has(n, given[n][i])  BY <3>2 DEF Inv, Moved
      <4> QED  BY <1>1, <1>5, <2>1, <4>1, <4>2 DEF Has
    <3> QED  BY <1>7, <3>1, <3>2
  <2>3. ASSUME NEW k \in Scanned'
        PROVE  IsEmptyValue(given[Connection][k]) \/ Has(Connection, given[Connection][k])'
    <3>1. IsEmptyValue(given[Connection][k]) \/ Has(Connection, given[Connection][k])
      BY <1>6 DEF Inv, Moved
    <3>2. k \in DOMAIN given[Connection]  BY <1>2, <1>6
    <3> PICK x : x = given[Connection][k]
      OBVIOUS
    <3>3. Has(Connection, x) => Has(Connection, x)'
      BY <1>5, <2>1, <3>2, PartitionAssumption
    <3> QED  BY <1>1, <3>1, <3>3 DEF Has
  <2> QED  BY <1>1, <1>2, <1>3, <2>2, <2>3, GivenTypes DEF Moved, Types, Has
<1> QED  BY <1>6, <1>8, <1>9 DEF Inv

LEMMA CopyEndsInv == ASSUME Inv, CopyEnds PROVE Inv' /\ SameReads
<1>1. /\ Types /\ phase = "copy" /\ phase' = "erase" /\ at' = 1 /\ ~Scanning /\ ~Scanning'
      /\ at > Len(options)
      /\ UNCHANGED <<given, in_fields, out_fields, options, pos, begun>>
  BY DEF CopyEnds, parser, Scanning, Inv
<1>2. Scanned = DOMAIN given[Connection] /\ Copied = AllNamed /\ Erased = {}
  BY <1>1, NamedAll DEF Scanned, Copied, Erased, Scanning
<1>3. Scanned' = Scanned /\ Parsing' /\ OptionsRead' /\ AllNamed' = AllNamed /\ SameReads
  BY <1>1, <1>2, OptionsStay
<1>4. Types'  BY <1>1 DEF Types
<1>5. Copied' = AllNamed /\ Erased' = {}
  BY <1>1, <1>3, <1>4, NamedNone DEF Copied, Erased, Named
<1>6. Moved'  BY <1>1, <1>2, <1>3, <1>5 DEF Inv, Moved, Has
<1> QED  BY <1>3, <1>4, <1>6 DEF Inv

LEMMA EraseFieldsInv == ASSUME Inv, EraseFields PROVE Inv' /\ SameReads
<1> DEFINE o == options[at]
<1>1. /\ Types /\ phase = "erase" /\ phase' = "erase" /\ at' = at + 1 /\ ~Scanning /\ ~Scanning'
      /\ at \in DOMAIN options /\ o \in Names
      /\ in_fields' = [in_fields EXCEPT ![o] = <<>>]
      /\ UNCHANGED <<given, out_fields, options, pos, begun>>
  BY DEF EraseFields, parser, Scanning, Inv, Types
<1>2. /\ Scanned = DOMAIN given[Connection] /\ Copied = AllNamed /\ Erased = Named(at)
  BY <1>1 DEF Scanned, Copied, Erased, Scanning
<1>3. Scanned' = Scanned /\ Parsing' /\ OptionsRead' /\ AllNamed' = AllNamed /\ SameReads
  BY <1>1, <1>2, OptionsStay
<1>4. Copied' = Copied /\ Erased' = Erased \cup {o}
  BY <1>1, <1>2, <1>3, NamedNext DEF Copied, Erased, Named
<1>5. Types'  BY <1>1 DEF Types
<1>6. in_fields' = [n \in Names |-> IF n \in Erased' THEN <<>> ELSE given[n]]
  BY <1>1, <1>4 DEF Inv, Moved
<1>7. Moved'  BY <1>1, <1>3, <1>4, <1>6 DEF Inv, Moved, Has
<1> QED  BY <1>3, <1>5, <1>7 DEF Inv

LEMMA EraseConnectionInv == ASSUME Inv, EraseConnection PROVE Inv' /\ SameReads
<1>1. /\ Types /\ phase = "erase" /\ phase' = "returned" /\ ~Scanning /\ ~Scanning'
      /\ at > Len(options)
      /\ in_fields' = [in_fields EXCEPT ![Connection] = <<>>]
      /\ UNCHANGED <<given, out_fields, options, at, pos, begun>>
  BY DEF EraseConnection, parser, Scanning, Inv
<1>2. /\ Scanned = DOMAIN given[Connection] /\ Copied = AllNamed /\ Erased = AllNamed
  BY <1>1, NamedAll DEF Scanned, Copied, Erased, Scanning
<1>3. Scanned' = Scanned /\ Parsing' /\ OptionsRead' /\ AllNamed' = AllNamed /\ SameReads
  BY <1>1, <1>2, OptionsStay
<1>4. Copied' = Copied /\ Erased' = Erased \cup {Connection}
  BY <1>1, <1>2, <1>3 DEF Copied, Erased
<1>5. Types'  BY <1>1, PartitionAssumption DEF Types
<1>6. in_fields' = [n \in Names |-> IF n \in Erased' THEN <<>> ELSE given[n]]
  BY <1>1, <1>4 DEF Inv, Moved
<1>7. Moved'  BY <1>1, <1>3, <1>4, <1>6 DEF Inv, Moved, Has
<1> QED  BY <1>3, <1>5, <1>7 DEF Inv

LEMMA InvNext == Inv /\ [Next]_vars => Inv'
<1> SUFFICES ASSUME Inv, [Next]_vars PROVE Inv'
  OBVIOUS
<1>1. CASE UNCHANGED vars
  BY <1>1 DEF vars, parser, Inv, Types, Moved, Scanned, Scanning, Copied, Erased, Named,
              AllNamed, Has, Parsing, OptionsRead, ReadAt, Past
<1> QED
  BY <1>1, ScanFieldInv, SkipBlankInv, ReadOptionInv, ParseEndsInv, ScanEndsInv,
     CopyFieldsInv, CopyEndsInv, EraseFieldsInv, EraseConnectionInv DEF Next

LEMMA InvHolds == Spec => []Inv
BY InvInit, InvNext, PTL DEF Spec

-----------------------------------------------------------------------------
\* At no point of the three loops is a field in neither set
\* (partition.hpp:60-72).
THEOREM NoValueLost == Spec => []NothingLost
<1>1. ASSUME Inv PROVE NothingLost
  <2> SUFFICES ASSUME NEW n \in Names, in_fields[n] # given[n]
               PROVE  /\ in_fields[n] = <<>>
                      /\ \A i \in DOMAIN given[n] :
                           \/ Has(n, given[n][i])
                           \/ n = Connection /\ IsEmptyValue(given[n][i])
    BY DEF NothingLost, Has
  <2>1. n \in Erased /\ in_fields[n] = <<>>  BY <1>1 DEF Inv, Moved
  <2>2. ~Scanning /\ Scanned = DOMAIN given[Connection]
    BY <2>1 DEF Erased, Scanning, Scanned
  <2>3. n \in Copied \/ n = Connection
    BY <2>1, <2>2 DEF Erased, Copied, Named, AllNamed
  <2>4. CASE n \in Copied  BY <1>1, <2>1, <2>4 DEF Inv, Moved
  <2>5. CASE n = Connection  BY <1>1, <2>1, <2>2, <2>5 DEF Inv, Moved
  <2> QED  BY <2>3, <2>4, <2>5
<1> QED  BY <1>1, InvHolds, PTL

\* Past the scan the vector holds the options of the fields at the call.
LEMMA NamedAreOptions ==
  ASSUME Inv, ~Scanning, NEW n \in Names
  PROVE  n \in AllNamed <=> n \in Options(given)
<1>1. n \in AllNamed <=> \E k, i \in Nat : ReadAt(n, k, i)
  BY DEF Inv, OptionsRead, Past, ReadAt, Scanned
<1>2. \A k, i : ReadAt(n, k, i) <=> <<k, i>> \in Occurrences(given, n)
  BY DEF ReadAt, Occurrences
<1>3. \A p \in Occurrences(given, n) : \E k, i \in Nat : p = <<k, i>>
  BY OccurrencesFinite DEF Inv, Types
<1>4. (\E k, i \in Nat : ReadAt(n, k, i)) <=> Occurrences(given, n) # {}
  <2>1. ASSUME NEW k \in Nat, NEW i \in Nat, ReadAt(n, k, i)
        PROVE  Occurrences(given, n) # {}
    BY <1>2, <2>1
  <2>2. ASSUME NEW p \in Occurrences(given, n)
        PROVE  \E k, i \in Nat : ReadAt(n, k, i)
    BY <1>2, <1>3
  <2> QED  BY <2>1, <2>2
<1> QED  BY <1>1, <1>4 DEF Options

\* What remains at the end is what Partition gives, however the names repeat
\* and whether they are those of fields that are there.
THEOREM RemainsComputed == Spec => []InComputed
<1>1. ASSUME Inv, phase = "returned" PROVE in_fields = InFields(given)
  <2>1. Types /\ ~Scanning /\ Erased = AllNamed \cup {Connection}
    BY <1>1 DEF Inv, Scanning, Erased
  <2>2. \A n \in Names : n \in AllNamed <=> n \in Options(given)
    BY <1>1, <2>1, NamedAreOptions
  <2>3. in_fields = [n \in Names |-> IF n \in Erased THEN <<>> ELSE given[n]]
    BY <1>1 DEF Inv, Moved
  <2> QED  BY <2>1, <2>2, <2>3 DEF InFields
<1> QED  BY <1>1, InvHolds, PTL DEF InComputed

\* The vector follows the grammar of RFC 7230 for the values in which no blank
\* stands between two options (partition.hpp:39-46).
THEOREM WellFormedFollowGrammar == Spec => [](WellFormed(given) => OptionsFollowGrammar)
<1>1. ASSUME Inv, WellFormed(given), phase \in {"copy", "erase", "returned"}
      PROVE  {options[i] : i \in DOMAIN options} \cup {Connection} = HopByHop(given)
  <2>1. ~Scanning /\ given \in Fields /\ AllNamed \subseteq Names
    BY <1>1 DEF Inv, Types, Scanning, AllNamed
  <2>2. \A n \in Names : n \in AllNamed <=> n \in Options(given)
    BY <1>1, <2>1, NamedAreOptions
  <2>3. \A n \in Names : (n = Connection \/ n \in Options(given)) <=> n \in HopByHop(given)
    BY <1>1, <2>1, OptionsAreHops
  <2>4. HopByHop(given) \subseteq Names  BY PartitionAssumption DEF HopByHop
  <2> QED  BY <2>1, <2>2, <2>3, <2>4, PartitionAssumption DEF AllNamed
<1>2. Inv => (WellFormed(given) => OptionsFollowGrammar)
  BY <1>1 DEF OptionsFollowGrammar
<1> QED  BY <1>2, InvHolds, PTL

\* Of a message whose Connection values have no blank behind an option, what
\* remains at the end is every end-to-end field and no other.
THEOREM EndToEndRemains ==
  Spec => [](phase = "returned" /\ WellFormed(given) =>
               in_fields = [n \in Names |-> IF n \in HopByHop(given) THEN <<>> ELSE given[n]])
<1>1. Inv /\ InComputed => (phase = "returned" /\ WellFormed(given) =>
        in_fields = [n \in Names |-> IF n \in HopByHop(given) THEN <<>> ELSE given[n]])
  BY StrippedFields DEF Inv, Types, InComputed
<1> QED  BY <1>1, InvHolds, RemainsComputed, PTL

-----------------------------------------------------------------------------
(***************************************************************************)
(* What the loops have put into out_fields.  Each field of it is at every  *)
(* step a beginning of what Partition says it holds at the end: an index   *)
(* into Joined, and a step that adds values moves the index on by one.     *)
(* That the index ends where the pieces end is a matter of counting: the   *)
(* entries of `options` are as many as the occurrences the parse passed.   *)
(***************************************************************************)
NamedAt(n) == {j \in DOMAIN options : options[j] = n}

\* The entries whose fields were copied.
CopiedAt(n) ==
  IF Scanning THEN {} ELSE {j \in NamedAt(n) : phase = "copy" => j < at}

\* The occurrences passed.
Reads(n) == {p \in Occurrences(given, n) : Past(p[1], p[2])}

\* The Connection values passed.
Passed(n) ==
  IF Scanning /\ n = Connection THEN at - 1 ELSE IF Scanning THEN 0 ELSE Own(given, n)

Index(n) == Passed(n) + Cardinality(CopiedAt(n))

AtBound == Scanning => at <= Len(given[Connection]) + 1

Counted == \A n \in Names : Cardinality(NamedAt(n)) = Cardinality(Reads(n))

Filled == \A n \in Names : out_fields[n] = Joined(Pieces(given, n))[Index(n)]

OutInv == AtBound /\ Counted /\ Filled

-----------------------------------------------------------------------------
LEMMA OccurrencesRead ==
  ASSUME Types, NEW n \in Names
  PROVE  /\ \A k, i : <<k, i>> \in Occurrences(given, n) <=> ReadAt(n, k, i)
         /\ \A p \in Occurrences(given, n) : \E k, i \in Nat : p = <<k, i>>
<1>1. \A k, i : <<k, i>> \in Occurrences(given, n) <=> ReadAt(n, k, i)
  BY DEF ReadAt, Occurrences
<1> QED  BY <1>1, OccurrencesFinite DEF Types

LEMMA ReadsSame ==
  ASSUME Types, SameReads, UNCHANGED given, NEW n \in Names
  PROVE  Reads(n)' = Reads(n)
<1>1. ASSUME NEW p \in Occurrences(given, n)
      PROVE  Past(p[1], p[2])' <=> Past(p[1], p[2])
  <2>1. PICK k, i \in Nat : p = <<k, i>>  BY OccurrencesRead
  <2>2. ReadAt(n, k, i) /\ p[1] = k /\ p[2] = i  BY <2>1, OccurrencesRead
  <2>3. ReadAt(n, k, i)'  BY <2>2 DEF ReadAt
  <2> QED  BY <2>2, <2>3 DEF SameReads
<1> QED  BY <1>1 DEF Reads

LEMMA CountedSame ==
  ASSUME Types, Counted, SameReads, UNCHANGED <<given, options>>
  PROVE  Counted'
<1>1. ASSUME NEW n \in Names PROVE Reads(n)' = Reads(n) /\ NamedAt(n)' = NamedAt(n)
  BY ReadsSame DEF NamedAt
<1> QED  BY <1>1 DEF Counted

LEMMA NamedAtFinite ==
  ASSUME Types, NEW n
  PROVE  IsFiniteSet(NamedAt(n)) /\ Cardinality(NamedAt(n)) \in Nat
<1>1. DOMAIN options = 1..Len(options) /\ Len(options) \in Int  BY DEF Types
<1>2. IsFiniteSet(1..Len(options))  BY <1>1, FS_Interval
<1>3. NamedAt(n) \in SUBSET (1..Len(options))  BY <1>1 DEF NamedAt
<1> QED  BY <1>2, <1>3, FS_Subset, FS_CardinalityType

LEMMA ReadsFinite ==
  ASSUME Types, NEW n \in Names
  PROVE  IsFiniteSet(Reads(n)) /\ Cardinality(Reads(n)) \in Nat
<1>1. IsFiniteSet(Occurrences(given, n))  BY OccurrencesFinite DEF Types
<1>2. Reads(n) \in SUBSET Occurrences(given, n)  BY DEF Reads
<1> QED  BY <1>1, <1>2, FS_Subset, FS_CardinalityType

\* An option that is read is one more entry and one more occurrence passed.
LEMMA CountedNext ==
  ASSUME Inv, Counted, ReadOption, OneMoreRead
  PROVE  Counted'
<1> PICK o : o = val[pos]
  OBVIOUS
<1>1. /\ Types /\ o \in Names /\ at \in Nat /\ pos \in Nat /\ phase = "parse" /\ UNCHANGED given
      /\ options' = Append(options, o) /\ Scanning
  <2>1. phase = "parse" /\ Takes /\ o # Blank  BY DEF ReadOption
  <2>2. val \in Seq(Names \cup {Blank}) /\ Scanning /\ Types  BY <2>1, ParseFacts
  <2>3. o \in Names  BY <2>1, <2>2 DEF Takes, Types
  <2> QED  BY <2>1, <2>2, <2>3 DEF ReadOption, Types
<1>2. ASSUME NEW n \in Names, n # o
      PROVE  Reads(n)' = Reads(n) /\ NamedAt(n)' = NamedAt(n)
  <2>1. ASSUME NEW p \in Occurrences(given, n)
        PROVE  Past(p[1], p[2])' <=> Past(p[1], p[2])
    <3>1. PICK k, i \in Nat : p = <<k, i>>  BY <1>1, OccurrencesRead
    <3>2. ReadAt(n, k, i) /\ p[1] = k /\ p[2] = i  BY <1>1, <3>1, OccurrencesRead
    <3>3. ReadAt(n, k, i)'  BY <1>1, <3>2 DEF ReadAt
    <3> QED  BY <1>2, <3>2, <3>3 DEF OneMoreRead
  <2>2. NamedAt(n)' = NamedAt(n)  BY <1>1, <1>2 DEF NamedAt, Types
  <2> QED  BY <1>1, <2>1, <2>2 DEF Reads
<1>3. NamedAt(o)' = NamedAt(o) \cup {Len(options) + 1} /\ Len(options) + 1 \notin NamedAt(o)
  BY <1>1 DEF NamedAt, Types
<1>4. Reads(o)' = Reads(o) \cup {<<at, pos>>}
  <2> PICK a, q : a = at /\ q = pos
    OBVIOUS
  <2>1. ReadAt(o, a, q)' /\ Past(a, q)'
    BY <1>1 DEF OneMoreRead
  <2>2. ReadAt(o, at, pos)  BY <1>1, <2>1 DEF ReadAt
  <2>3. <<at, pos>> \in Occurrences(given, o)  BY <1>1, <2>2, OccurrencesRead
  <2>4. ASSUME NEW p \in Occurrences(given, o)
        PROVE  Past(p[1], p[2])' <=> p = <<at, pos>> \/ Past(p[1], p[2])
    <3>1. PICK k, i \in Nat : p = <<k, i>>  BY <1>1, OccurrencesRead
    <3>2. ReadAt(o, k, i) /\ p[1] = k /\ p[2] = i  BY <1>1, <3>1, OccurrencesRead
    <3>3. ReadAt(o, k, i)'  BY <1>1, <3>2 DEF ReadAt
    <3>4. Past(k, i)' <=> (k = at /\ i = pos) \/ Past(k, i)
      BY <1>1, <3>2, <3>3 DEF OneMoreRead
    <3> QED  BY <3>1, <3>2, <3>4
  <2> QED  BY <1>1, <2>3, <2>4 DEF Reads
<1>5. <<at, pos>> \notin Reads(o)
  BY <1>1 DEF Reads, Past, Scanned
<1>6. /\ Cardinality(NamedAt(o) \cup {Len(options) + 1}) = Cardinality(NamedAt(o)) + 1
      /\ Cardinality(Reads(o) \cup {<<at, pos>>}) = Cardinality(Reads(o)) + 1
  BY <1>1, <1>3, <1>5, NamedAtFinite, ReadsFinite, FS_AddElement
<1>7. ASSUME NEW n \in Names PROVE (Cardinality(NamedAt(n)) = Cardinality(Reads(n)))'
  <2>1. CASE n = o  BY <1>1, <1>3, <1>4, <1>6, <2>1 DEF Counted
  <2>2. CASE n # o  BY <1>2, <2>2 DEF Counted
  <2> QED  BY <2>1, <2>2
<1> QED  BY <1>7 DEF Counted

-----------------------------------------------------------------------------
\* The pieces of the fields at the call.
LEMMA JoinedGiven ==
  ASSUME NEW f \in Fields, NEW n \in Names
  PROVE  /\ Joined(Pieces(f, n))[0] = <<>>
         /\ \A m \in 1..Own(f, n) :
              Joined(Pieces(f, n))[m] =
                Joined(Pieces(f, n))[m - 1] \o
                  IF IsEmptyValue(f[n][m]) THEN <<>> ELSE <<f[n][m]>>
         /\ \A m \in 1..Times(f, n) :
              Joined(Pieces(f, n))[Own(f, n) + m] =
                Joined(Pieces(f, n))[Own(f, n) + m - 1] \o f[n]
<1> PICK pieces, own, times : pieces = Pieces(f, n) /\ own = Own(f, n) /\ times = Times(f, n)
  OBVIOUS
<1>1. /\ Len(pieces) = own + times /\ own \in Nat /\ times \in Nat
      /\ \A m \in 1..own :
           pieces[m] = IF IsEmptyValue(f[n][m]) THEN <<>> ELSE <<f[n][m]>>
      /\ \A m \in 1..times : pieces[own + m] = f[n]
  BY PiecesAre
<1>2. /\ Joined(pieces)[0] = <<>>
      /\ \A m \in 1..own + times : Joined(pieces)[m] = Joined(pieces)[m - 1] \o pieces[m]
  <2>1. Len(pieces) \in Nat /\ Len(pieces) = own + times  BY <1>1
  <2> QED  BY <2>1, JoinedNext
<1>3. ASSUME NEW m \in 1..own
      PROVE  Joined(pieces)[m] =
               Joined(pieces)[m - 1] \o
                  IF IsEmptyValue(f[n][m]) THEN <<>> ELSE <<f[n][m]>>
  <2>1. m \in 1..own + times  BY <1>1
  <2>2. Joined(pieces)[m] = Joined(pieces)[m - 1] \o pieces[m]  BY <1>2, <2>1
  <2>3. pieces[m] = IF IsEmptyValue(f[n][m]) THEN <<>> ELSE <<f[n][m]>>  BY <1>1
  <2> QED  BY <2>2, <2>3
<1>4. ASSUME NEW m \in 1..times
      PROVE  Joined(pieces)[own + m] = Joined(pieces)[own + m - 1] \o f[n]
  <2> PICK q : q = own + m
    OBVIOUS
  <2>1. q \in 1..own + times  BY <1>1
  <2>2. Joined(pieces)[q] = Joined(pieces)[q - 1] \o pieces[q]  BY <1>2, <2>1
  <2>3. pieces[q] = f[n]  BY <1>1
  <2>4. q - 1 = own + m - 1  BY <1>1
  <2>5. Joined(pieces)[q] = Joined(pieces)[own + m - 1] \o f[n]  BY <2>2, <2>3, <2>4
  <2> QED  BY <2>5
<1> QED  BY <1>2, <1>3, <1>4

\* Past the scan a name has as many entries as it has occurrences.
LEMMA EntriesCounted ==
  ASSUME Counted, ~Scanning, NEW n \in Names
  PROVE  Cardinality(NamedAt(n)) = Times(given, n)
<1>1. \A p \in Occurrences(given, n) : Past(p[1], p[2])
  <2> SUFFICES ASSUME NEW p \in Occurrences(given, n) PROVE p[1] \in DOMAIN given[Connection]
    BY DEF Past, Scanned
  <2> QED  BY DEF Occurrences
<1>2. Reads(n) = Occurrences(given, n)  BY <1>1 DEF Reads
<1> QED  BY <1>2 DEF Counted, Times

\* While the scan runs nothing is copied.
LEMMA ScanIndex ==
  ASSUME Types, Types', NEW n \in Names
  PROVE  /\ Scanning => Index(n) = IF n = Connection THEN at - 1 ELSE 0
         /\ Scanning' => Index(n)' = IF n = Connection THEN at' - 1 ELSE 0
<1>1. Cardinality({}) = 0  BY FS_EmptySet
<1>2. ASSUME Scanning PROVE Index(n) = IF n = Connection THEN at - 1 ELSE 0
  <2>1. CopiedAt(n) = {}  BY <1>2 DEF CopiedAt
  <2> QED  BY <1>1, <1>2, <2>1 DEF Index, Passed, Types
<1>3. ASSUME Scanning' PROVE Index(n)' = IF n = Connection THEN at' - 1 ELSE 0
  <2>1. CopiedAt(n)' = {}  BY <1>3 DEF CopiedAt
  <2> QED  BY <1>1, <1>3, <2>1 DEF Index, Passed, Types
<1> QED  BY <1>2, <1>3

LEMMA FilledStays ==
  ASSUME Filled, UNCHANGED <<given, out_fields>>, \A n \in Names : Index(n)' = Index(n)
  PROVE  Filled'
BY DEF Filled

\* A step that passes a Connection value has it in out_fields.
LEMMA FilledValue ==
  ASSUME Inv, Types', Counted, Filled, Scanning, Scanning', at' = at + 1, UNCHANGED given,
         at \in DOMAIN given[Connection],
         out_fields' =
           IF IsEmptyValue(given[Connection][at]) THEN out_fields
           ELSE [out_fields EXCEPT ![Connection] = Append(@, given[Connection][at])]
  PROVE  Filled'
<1> PICK w : w = given[Connection][at]
  OBVIOUS
<1>1. /\ Types /\ at \in Nat /\ at >= 1 /\ at \in 1..Len(given[Connection]) /\ w \in FieldValues
      /\ out_fields[Connection] \in Seq(FieldValues) /\ Connection \in Names
  BY PartitionAssumption, GivenTypes DEF Inv, Types
<1>2. ASSUME NEW n \in Names, n # Connection PROVE out_fields'[n] = Joined(Pieces(given', n))[Index(n)']
  <2>1. out_fields'[n] = out_fields[n]  BY <1>1, <1>2 DEF Types
  <2> QED  BY <1>1, <1>2, <2>1, ScanIndex DEF Filled
<1>3. out_fields'[Connection] = Joined(Pieces(given', Connection))[Index(Connection)']
  <2>1. Index(Connection) = at - 1 /\ Index(Connection)' = at  BY <1>1, ScanIndex
  <2>2. Joined(Pieces(given, Connection))[at] =
          out_fields[Connection] \o IF IsEmptyValue(w) THEN <<>> ELSE <<w>>
    <3> PICK f : f = given
      OBVIOUS
    <3>1. f \in Fields /\ at \in 1..Own(f, Connection)  BY <1>1 DEF Own, Types
    <3>2. Joined(Pieces(f, Connection))[at] =
            Joined(Pieces(f, Connection))[at - 1] \o
              IF IsEmptyValue(f[Connection][at]) THEN <<>> ELSE <<f[Connection][at]>>
      BY <1>1, <3>1, JoinedGiven
    <3>3. out_fields[Connection] = Joined(Pieces(f, Connection))[at - 1]
      BY <1>1, <2>1 DEF Filled
    <3> QED  BY <3>2, <3>3
  <2>3. CASE IsEmptyValue(w)
    <3>1. out_fields[Connection] \o <<>> = out_fields[Connection]  BY <1>1, ConcatEmptySeq
    <3> QED  BY <2>1, <2>2, <2>3, <3>1
  <2>4. CASE ~IsEmptyValue(w)
    <3>1. Append(out_fields[Connection], w) = out_fields[Connection] \o <<w>>
      BY <1>1, AppendIsConcat
    <3>2. out_fields'[Connection] = Append(out_fields[Connection], w)  BY <1>1, <2>4 DEF Types
    <3> QED  BY <2>1, <2>2, <2>4, <3>1, <3>2
  <2> QED  BY <2>3, <2>4
<1> QED  BY <1>2, <1>3 DEF Filled

LEMMA OutInvInit == Init => OutInv
<1> SUFFICES ASSUME Init PROVE OutInv
  OBVIOUS
<1>1. /\ Types /\ Scanning /\ at = 1 /\ phase = "scan" /\ options = <<>> /\ out_fields = NoFields
  BY InvInit DEF Inv, Init, Scanning
<1>2. AtBound  BY <1>1, GivenTypes DEF AtBound, Types
<1>3. Counted
  <2>1. ASSUME NEW n \in Names PROVE NamedAt(n) = {} /\ Reads(n) = {}
    <3>1. NamedAt(n) = {}  BY <1>1 DEF NamedAt
    <3>2. Scanned = {}  BY <1>1, GivenTypes DEF Scanned, Types
    <3> QED  BY <1>1, <3>1, <3>2 DEF Reads, Past
  <2> QED  BY <2>1 DEF Counted
<1>4. Filled
  <2>1. ASSUME NEW n \in Names PROVE Index(n) = 0
    <3>1. CopiedAt(n) = {}  BY <1>1 DEF CopiedAt
    <3>2. Passed(n) = 0  BY <1>1 DEF Passed
    <3> QED  BY <3>1, <3>2, FS_EmptySet DEF Index
  <2>2. ASSUME NEW n \in Names PROVE Joined(Pieces(given, n))[0] = <<>>
    BY <1>1, JoinedGiven DEF Types
  <2> QED  BY <1>1, <2>1, <2>2 DEF Filled, NoFields
<1> QED  BY <1>2, <1>3, <1>4 DEF OutInv

LEMMA ScanFieldOut == ASSUME Inv, Inv', SameReads, OutInv, ScanField PROVE OutInv'
<1>1. /\ Types /\ Types' /\ phase = "scan" /\ Scanning /\ Scanning' /\ val = given[Connection][at]
      /\ at \in DOMAIN given[Connection] /\ at \in Nat /\ UNCHANGED <<given, out_fields, options>>
  <2>1. Types /\ Types' /\ phase = "scan" /\ Scanning /\ Scanning' /\ in_fields = given
        /\ val = given[Connection][at]
    BY ScanFacts DEF Inv, ScanField, Scanning
  <2> QED  BY <2>1, GivenTypes DEF Types, ScanField
<1>2. Counted'  BY <1>1, CountedSame DEF OutInv
<1>3. CASE IsEmptyValue(val)
  <2>1. at' = at + 1  BY <1>3 DEF ScanField
  <2>2. Filled'  BY <1>1, <1>3, <2>1, FilledValue DEF OutInv
  <2>3. AtBound'  BY <1>1, <2>1, GivenTypes DEF AtBound, Types
  <2> QED  BY <1>2, <2>2, <2>3 DEF OutInv
<1>4. CASE ~IsEmptyValue(val)
  <2>1. at' = at  BY <1>4 DEF ScanField
  <2>2. \A n \in Names : Index(n)' = Index(n)  BY <1>1, <2>1, ScanIndex
  <2>3. Filled'  BY <1>1, <2>2, FilledStays DEF OutInv
  <2>4. AtBound'  BY <1>1, <2>1 DEF AtBound, OutInv
  <2> QED  BY <1>2, <2>3, <2>4 DEF OutInv
<1> QED  BY <1>3, <1>4

\* The steps inside the parse.
LEMMA ParseOut ==
  ASSUME Inv, Inv', OutInv, phase = "parse", phase' = "parse", Counted',
         UNCHANGED <<given, out_fields, at>>
  PROVE  OutInv'
<1>1. Types /\ Types' /\ Scanning /\ Scanning'  BY DEF Inv, Scanning
<1>2. \A n \in Names : Index(n)' = Index(n)  BY <1>1, ScanIndex
<1>3. Filled'  BY <1>2, FilledStays DEF OutInv
<1>4. AtBound'  BY <1>1 DEF AtBound, OutInv
<1> QED  BY <1>3, <1>4 DEF OutInv

LEMMA SkipBlankOut == ASSUME Inv, Inv', SameReads, OutInv, SkipBlank PROVE OutInv'
<1>1. Counted'  BY CountedSame DEF Inv, OutInv, SkipBlank
<1> QED  BY <1>1, ParseOut DEF SkipBlank

LEMMA ReadOptionOut == ASSUME Inv, Inv', OneMoreRead, OutInv, ReadOption PROVE OutInv'
<1>1. Counted'  BY CountedNext DEF OutInv
<1> QED  BY <1>1, ParseOut DEF ReadOption

LEMMA ParseEndsOut == ASSUME Inv, Inv', SameReads, OutInv, ParseEnds PROVE OutInv'
<1>1. /\ Types /\ Types' /\ Scanning /\ Scanning' /\ at' = at + 1
      /\ at \in DOMAIN given[Connection] /\ ~IsEmptyValue(given[Connection][at])
      /\ out_fields' = [out_fields EXCEPT ![Connection] = Append(@, given[Connection][at])]
      /\ UNCHANGED <<given, options>>
  BY ParseFacts DEF ParseEnds, Inv, Scanning
<1>2. Counted'  BY <1>1, CountedSame DEF OutInv
<1>3. Filled'  BY <1>1, FilledValue DEF OutInv
<1>4. AtBound'  BY <1>1, GivenTypes DEF AtBound, Types
<1> QED  BY <1>2, <1>3, <1>4 DEF OutInv

LEMMA ScanEndsOut == ASSUME Inv, Inv', SameReads, OutInv, ScanEnds PROVE OutInv'
<1>1. /\ Types /\ Types' /\ phase = "scan" /\ Scanning /\ ~Scanning' /\ phase' = "copy" /\ at' = 1
      /\ UNCHANGED <<given, out_fields, options>>
      /\ at > Len(given[Connection]) /\ Len(given[Connection]) \in Nat /\ at \in Nat
  <2>1. phase = "scan" /\ Scanning /\ Types /\ Types' /\ in_fields = given
    BY ScanFacts DEF Inv, ScanEnds, Scanning
  <2> QED  BY <2>1, GivenTypes DEF ScanEnds, Scanning, Types
<1>2. Counted'  BY <1>1, CountedSame DEF OutInv
<1>3. ASSUME NEW n \in Names PROVE Index(n)' = Index(n)
  <2>1. at - 1 = Len(given[Connection])  BY <1>1 DEF OutInv, AtBound
  <2>2. Index(n) = Own(given, n)  BY <1>1, <2>1, ScanIndex DEF Own
  <2>3. CopiedAt(n)' = {}  BY <1>1 DEF CopiedAt, NamedAt, Types
  <2>4. Passed(n)' = Own(given, n)  BY <1>1 DEF Passed
  <2>5. Own(given, n) \in Nat  BY <1>1 DEF Own
  <2> QED  BY <2>2, <2>3, <2>4, <2>5, FS_EmptySet DEF Index
<1>4. Filled'  BY <1>1, <1>3, FilledStays DEF OutInv
<1> QED  BY <1>1, <1>2, <1>4 DEF OutInv, AtBound

LEMMA CopyFieldsOut == ASSUME Inv, Inv', SameReads, OutInv, CopyFields PROVE OutInv'
<1> PICK o, f : o = options[at] /\ f = given
  OBVIOUS
<1>1. /\ Types /\ phase = "copy" /\ phase' = "copy" /\ at' = at + 1 /\ ~Scanning /\ ~Scanning'
      /\ at \in DOMAIN options /\ at \in Nat /\ o \in Names /\ f \in Fields
      /\ UNCHANGED <<given, in_fields, options>>
  BY DEF CopyFields, Scanning, Inv, Types
<1>2. in_fields = f
  <2>1. Erased = {}  BY <1>1 DEF Erased
  <2> QED  BY <1>1, <2>1, GivenTypes DEF Inv, Moved
<1>3. out_fields' = [out_fields EXCEPT ![o] = @ \o f[o]]  BY <1>2 DEF CopyFields
<1>4. Counted'  BY <1>1, CountedSame DEF OutInv
<1>5. ASSUME NEW n \in Names, n # o
      PROVE  out_fields'[n] = Joined(Pieces(f, n))[Index(n)']
  <2>1. CopiedAt(n)' = CopiedAt(n)  BY <1>1, <1>5 DEF CopiedAt, NamedAt, Types
  <2>2. Index(n)' = Index(n)  BY <1>1, <2>1 DEF Index, Passed
  <2>3. out_fields'[n] = out_fields[n]  BY <1>1, <1>3, <1>5 DEF Types
  <2> QED  BY <2>2, <2>3 DEF OutInv, Filled
<1>6. out_fields'[o] = Joined(Pieces(f, o))[Index(o)']
  <2> PICK c : c = Cardinality(CopiedAt(o))
    OBVIOUS
  <2>1. CopiedAt(o)' = CopiedAt(o) \cup {at} /\ at \notin CopiedAt(o)
    BY <1>1 DEF CopiedAt, NamedAt, Types
  <2>2. CopiedAt(o) \in SUBSET NamedAt(o) /\ CopiedAt(o) \cup {at} \in SUBSET NamedAt(o)
    BY <1>1 DEF CopiedAt, NamedAt
  <2>3. IsFiniteSet(NamedAt(o)) /\ Cardinality(NamedAt(o)) = Times(f, o)
    BY <1>1, NamedAtFinite, EntriesCounted DEF OutInv
  <2>4. /\ IsFiniteSet(CopiedAt(o)) /\ c \in Nat
        /\ Cardinality(CopiedAt(o) \cup {at}) <= Times(f, o)
    BY <2>2, <2>3, FS_Subset, FS_CardinalityType
  <2>5. Cardinality(CopiedAt(o) \cup {at}) = c + 1  BY <2>1, <2>4, FS_AddElement
  <2>6. Own(f, o) \in Nat /\ Times(f, o) \in Nat  BY <1>1, PiecesAre
  <2>7. Index(o) = Own(f, o) + c /\ Index(o)' = Own(f, o) + (c + 1)
    BY <1>1, <2>1, <2>5 DEF Index, Passed
  <2>8. c + 1 \in 1..Times(f, o)  BY <2>4, <2>5, <2>6
  <2>9. Joined(Pieces(f, o))[Own(f, o) + (c + 1)] =
          Joined(Pieces(f, o))[Own(f, o) + (c + 1) - 1] \o f[o]
    BY <1>1, <2>8, JoinedGiven
  <2>10. Own(f, o) + (c + 1) - 1 = Own(f, o) + c  BY <2>4, <2>6
  <2>11. out_fields[o] = Joined(Pieces(f, o))[Own(f, o) + c]
    BY <1>1, <2>7 DEF OutInv, Filled
  <2>12. out_fields'[o] = out_fields[o] \o f[o]  BY <1>1, <1>3 DEF Types
  <2> QED  BY <2>7, <2>9, <2>10, <2>11, <2>12
<1>7. Filled'  BY <1>1, <1>5, <1>6 DEF Filled
<1> QED  BY <1>1, <1>4, <1>7 DEF OutInv, AtBound

LEMMA CopyEndsOut == ASSUME Inv, Inv', SameReads, OutInv, CopyEnds PROVE OutInv'
<1>1. /\ Types /\ phase = "copy" /\ phase' = "erase" /\ ~Scanning /\ ~Scanning'
      /\ at > Len(options) /\ UNCHANGED <<given, out_fields, options>>
  BY DEF CopyEnds, Scanning, Inv
<1>2. Counted'  BY <1>1, CountedSame DEF OutInv
<1>3. ASSUME NEW n \in Names PROVE Index(n)' = Index(n)
  <2>1. CopiedAt(n) = NamedAt(n) /\ CopiedAt(n)' = NamedAt(n)
    BY <1>1 DEF CopiedAt, NamedAt, Types
  <2> QED  BY <1>1, <2>1 DEF Index, Passed
<1>4. Filled'  BY <1>1, <1>3, FilledStays DEF OutInv
<1> QED  BY <1>1, <1>2, <1>4 DEF OutInv, AtBound

\* The steps of the last loop.
LEMMA EraseOut ==
  ASSUME Inv, SameReads, OutInv, phase = "erase", phase' \in {"erase", "returned"},
         UNCHANGED <<given, out_fields, options>>
  PROVE  OutInv'
<1>1. Types /\ ~Scanning /\ ~Scanning'  BY DEF Scanning, Inv
<1>2. Counted'  BY <1>1, CountedSame DEF OutInv
<1>3. ASSUME NEW n \in Names PROVE Index(n)' = Index(n)
  <2>1. CopiedAt(n) = NamedAt(n) /\ CopiedAt(n)' = NamedAt(n)
    BY <1>1 DEF CopiedAt, NamedAt
  <2> QED  BY <1>1, <2>1 DEF Index, Passed
<1>4. Filled'  BY <1>3, FilledStays DEF OutInv
<1> QED  BY <1>1, <1>2, <1>4 DEF OutInv, AtBound

LEMMA OutInvNext == Inv /\ OutInv /\ [Next]_vars => OutInv'
<1> SUFFICES ASSUME Inv, OutInv, [Next]_vars PROVE OutInv'
  OBVIOUS
<1>1. Inv'  BY InvNext
<1>2. CASE UNCHANGED vars
  <2>1. UNCHANGED <<given, out_fields, options, phase, at, pos>>  BY <1>2 DEF vars, parser
  <2>2. Scanned' = Scanned /\ (Scanning' <=> Scanning)  BY <2>1 DEF Scanned, Scanning
  <2>3. SameReads  BY <2>1, <2>2 DEF SameReads, ReadAt, Past
  <2>4. \A n : Index(n)' = Index(n)
    BY <2>1, <2>2 DEF Index, Passed, CopiedAt, NamedAt, Own
  <2>5. Counted'  BY <2>1, <2>3, CountedSame DEF Inv, OutInv
  <2>6. Filled'  BY <2>1, <2>4, FilledStays DEF OutInv
  <2> QED  BY <2>1, <2>2, <2>5, <2>6 DEF OutInv, AtBound
<1>3. CASE ScanField  BY <1>1, <1>3, ScanFieldInv, ScanFieldOut
<1>4. CASE SkipBlank  BY <1>1, <1>4, SkipBlankInv, SkipBlankOut
<1>5. CASE ReadOption  BY <1>1, <1>5, ReadOptionInv, ReadOptionOut
<1>6. CASE ParseEnds  BY <1>1, <1>6, ParseEndsInv, ParseEndsOut
<1>7. CASE ScanEnds  BY <1>1, <1>7, ScanEndsInv, ScanEndsOut
<1>8. CASE CopyFields  BY <1>1, <1>8, CopyFieldsInv, CopyFieldsOut
<1>9. CASE CopyEnds  BY <1>1, <1>9, CopyEndsInv, CopyEndsOut
<1>10. CASE EraseFields  BY <1>10, EraseFieldsInv, EraseOut DEF EraseFields
<1>11. CASE EraseConnection  BY <1>11, EraseConnectionInv, EraseOut DEF EraseConnection
<1> QED
  BY <1>2, <1>3, <1>4, <1>5, <1>6, <1>7, <1>8, <1>9, <1>10, <1>11 DEF Next

LEMMA OutInvHolds == Spec => [](Inv /\ OutInv)
BY InvInit, InvNext, OutInvInit, OutInvNext, PTL DEF Spec

-----------------------------------------------------------------------------
\* What was copied at the end is what Partition gives: each Connection value
\* that is not empty and each field named, once for every time it is named,
\* in the order of the options (partition.hpp:55-69).
THEOREM CopiedComputed == Spec => []OutComputed
<1>1. ASSUME Inv, OutInv, phase = "returned" PROVE out_fields = OutFields(given)
  <2>1. Types /\ ~Scanning  BY <1>1 DEF Inv, Scanning
  <2>2. ASSUME NEW n \in Names PROVE Index(n) = Len(Pieces(given, n))
    <3>1. CopiedAt(n) = NamedAt(n)  BY <1>1, <2>1 DEF CopiedAt
    <3>2. Cardinality(NamedAt(n)) = Times(given, n)  BY <1>1, <2>1, EntriesCounted DEF OutInv
    <3>3. Len(Pieces(given, n)) = Own(given, n) + Times(given, n)  BY <2>1, PiecesAre DEF Types
    <3> QED  BY <2>1, <3>1, <3>2, <3>3 DEF Index, Passed
  <2> QED  BY <1>1, <2>1, <2>2 DEF OutInv, Filled, OutFields, Types
<1> QED  BY <1>1, OutInvHolds, PTL DEF OutComputed

\* What remains is a fixed point: a second intermediary finds nothing to take
\* out, and all of what is end-to-end is there.
THEOREM SecondHopFindsNothing == Spec => []RelayedIsEndToEnd
<1>1. ASSUME Inv, InComputed, phase = "returned"
      PROVE  /\ InFields(in_fields) = in_fields
             /\ OutFields(in_fields) = NoFields
             /\ \A n \in Names \ HopByHop(given) : in_fields[n] = given[n]
             /\ WellFormed(given) => \A n \in HopByHop(given) \cap Names : in_fields[n] = <<>>
  <2> PICK f, g : f = given /\ g = in_fields
    OBVIOUS
  <2>1. f \in Fields /\ g = InFields(f)  BY <1>1 DEF Inv, Types, InComputed
  <2>2. g[Connection] = <<>>  BY <2>1, PartitionAssumption DEF InFields
  <2>3. \A n : Occurrences(g, n) = {}  BY <2>2 DEF Occurrences
  <2>4. InFields(g) = g
    <3>1. Options(g) = {}  BY <2>3 DEF Options
    <3> QED  BY <2>1, <2>2, <3>1 DEF InFields
  <2>5. OutFields(g) = NoFields
    <3>1. ASSUME NEW n \in Names PROVE Pieces(g, n) = <<>>
      <4>1. Cardinality(Occurrences(g, n)) = 0  BY <2>3, FS_EmptySet
      <4>2. [m \in 1..0 |-> g[n]] = <<>>  OBVIOUS
      <4>3. Kept(<<>>) = <<>>  BY DEF Kept
      <4> QED  BY <2>2, <4>1, <4>2, <4>3 DEF Pieces
    <3>2. Len(<<>>) = 0 /\ Joined(<<>>)[0] = <<>>
      <4>1. Len(<<>>) = 0 /\ Len(<<>>) \in Nat  OBVIOUS
      <4> QED  BY <4>1, JoinedNext
    <3> QED  BY <3>1, <3>2 DEF OutFields, NoFields
  <2>6. ASSUME NEW n \in Names \ HopByHop(f) PROVE g[n] = f[n]
    <3>1. n # Connection /\ n \notin Options(f)
      BY DEF HopByHop, Options, Occurrences, ParsedAt
    <3> QED  BY <2>1, <3>1 DEF InFields
  <2>7. WellFormed(f) => \A n \in HopByHop(f) \cap Names : g[n] = <<>>
    BY <2>1, StrippedFields
  <2> QED  BY <2>4, <2>5, <2>6, <2>7
<1>2. HopByHop(given) \subseteq Names  BY PartitionAssumption DEF HopByHop
<1>3. Inv /\ InComputed => RelayedIsEndToEnd
  BY <1>1, <1>2 DEF RelayedIsEndToEnd
<1> QED  BY <1>3, InvHolds, RemainsComputed, PTL
=============================================================================
