----------------------------- MODULE MCTypedTable ----------------------------
(***************************************************************************)
(* Instances of TypedQueries.  A design is small, but each has the shapes  *)
(* that the checks and the generated code tell apart: entities that share  *)
(* a partition, index keys of one and of several fields, conditions at and *)
(* after the first placeholder, and every encoder.  The drafts are refused *)
(* by one check each.  Text is written in code points: 65 is A, 97 is a.   *)
(***************************************************************************)
EXTENDS TypedQueries

et == <<"", "et">>
F(type, attr) == [type |-> type, attr |-> <<"", attr>>]
Key(pk, sk) == [pk |-> pk, sk |-> sk, projection |-> "all"]
Pattern(index, pk, cond, value) == [index |-> index, pk |-> pk, cond |-> cond, value |-> value]
Cond(segs) == [segs |-> segs, delim |-> FALSE]
Open(segs) == [segs |-> segs, delim |-> TRUE]
Entity(type, fields, keys, patterns) ==
  [type |-> type, et |-> et, version |-> "", ttl |-> "",
   fields |-> fields, keys |-> keys, patterns |-> patterns]

MCWidth == [rfc3339 |-> 2, epoch |-> 1, epochms |-> 2, ulid |-> 3]
MCUnit == [epoch |-> 3, epochms |-> 1]

\* Characters beyond ASCII that change case: e acute does within them, long s,
\* dotless i, the kelvin sign and dotted I become letters of ASCII.
MCUpperOf == 233 :> 201 @@ 305 :> 73 @@ 383 :> 83
MCLowerOf == 201 :> 233 @@ 304 :> 105 @@ 8490 :> 107

\* EncodeULID counts bytes before it upper-cases (encode.go 147-150): a long s
\* is two, so that a text of too few characters passes and what it becomes
\* does not.  This is what ULIDsAscii excludes.
ASSUME LongS == EncodeULID(<<48, 383>>) = <<48, 83>> /\ EncodeULID(<<48, 83>>) = Refused

------------------------------------------------------------------------------
(* Orders and payments of a tenant, in one partition.                      *)

Tenant == <<Lit(<<84>>), Ph("Tenant", Raw)>>
OrderSK == <<Lit(<<79>>), Ph("N", Pad(1))>>
StatusPK == <<Lit(<<83>>), Ph("Status", Enc("upper"))>>

Order ==
  [Entity(<<79>>,
     [Tenant |-> F("string", "tenant"), N |-> F("int64", "n"), Status |-> F("string", "status"),
      Total |-> F("int64", "total"), Version |-> F("int", "v")],
     [main |-> Key(Tenant, OrderSK), gsi1 |-> Key(StatusPK, <<Ph("N", Pad(1))>>)],
     [OrdersAll    |-> Pattern("main", Tenant, "", NoValue),
      OrdersLike   |-> Pattern("main", Tenant, "begins", Cond(<<Lit(<<79>>)>>)),
      OrdersFrom   |-> Pattern("main", Tenant, "gte", Cond(OrderSK)),
      OrdersAfter  |-> Pattern("main", Tenant, "gt", Cond(OrderSK)),
      OrdersUpTo   |-> Pattern("main", Tenant, "lte", Cond(OrderSK)),
      OrdersBefore |-> Pattern("main", Tenant, "lt", Cond(OrderSK)),
      OrderAt      |-> Pattern("main", Tenant, "eq", Cond(OrderSK)),
      ByStatus     |-> Pattern("gsi1", StatusPK, "", NoValue)]) EXCEPT !.version = "Version"]

PaymentSK == <<Lit(<<80>>), Ph("Ref", Raw)>>
Payment ==
  Entity(<<80>>,
    [Tenant |-> F("string", "tenant"), Ref |-> F("string", "ref"),
     Method |-> F("string", "method"), Day |-> F("uint32", "day")],
    [main |-> Key(Tenant, PaymentSK),
     gsi1 |-> Key(<<Lit(<<83>>), Ph("Method", Raw)>>, PaymentSK),
     gsi2 |-> Key(<<Ph("Method", Raw), Ph("Day", Pad(1))>>, NoSK)],
    [Payments  |-> Pattern("main", Tenant, "begins", Open(<<Lit(<<80>>)>>)),
     PaymentsLike |-> Pattern("main", Tenant, "begins", Cond(PaymentSK)),
     OnDay     |-> Pattern("gsi2", <<Ph("Method", Raw), Ph("Day", Pad(1))>>, "", NoValue)])

Shop == [Order |-> Order, Payment |-> Payment]

OrderRow(t, n, s) ==
  [Tenant |-> t, N |-> n, Status |-> s, Total |-> <<0>>, Version |-> <<0>>]
PaymentRow(t, ref, method) == [Tenant |-> t, Ref |-> ref, Method |-> method, Day |-> <<1>>]
ShopRows ==
  [Order |-> {OrderRow(<<65>>, <<0>>, <<383, 233>>), OrderRow(<<65>>, <<9>>, <<115, 201>>),
              OrderRow(<<65>>, <<9>>, <<>>), OrderRow(<<66>>, <<9>>, <<66>>)},
   Payment |-> {PaymentRow(<<65>>, <<65>>, <<66>>), PaymentRow(<<65>>, <<65, 66>>, <<67>>),
                PaymentRow(<<65, 35>>, <<65>>, <<66>>)}]

------------------------------------------------------------------------------
(* Log lines by region and time, regions being prefixes of one another.    *)

LogPK == <<Ph("App", Raw)>>
LogSK == <<Ph("Region", Raw), Ph("At", Enc("rfc3339"))>>
Log == Entity(<<76>>,
  [App |-> F("string", "app"), Region |-> F("string", "region"), At |-> F("time.Time", "at")],
  [main |-> Key(LogPK, LogSK)],
  [LogAll   |-> Pattern("main", LogPK, "", NoValue),
   InRegion |-> Pattern("main", LogPK, "begins", Open(<<LogSK[1]>>)),
   LogFrom  |-> Pattern("main", LogPK, "gte", Cond(LogSK)),
   LogAfter |-> Pattern("main", LogPK, "gt", Cond(LogSK)),
   LogUpTo  |-> Pattern("main", LogPK, "lte", Cond(LogSK)),
   LogBelow |-> Pattern("main", LogPK, "lt", Cond(LogSK))])

LogRows ==
  [Log |-> {[App |-> <<65>>, Region |-> r, At |-> t] :
              r \in {<<65>>, <<65, 66>>, <<65, 33>>}, t \in {<<0>>, <<10>>, <<99>>}}]

------------------------------------------------------------------------------
(* Assets, whose keys take all the other encoders.                         *)

AssetPK == <<Ph("Owner", Enc("lower"))>>
PathPK == <<Lit(<<85>>), Ph("Path", Enc("urlenc"))>>
SlotPK == <<Ph("Slot", Pad(2)), Ph("Sum", Enc("hex"))>>
TimePK == <<Ph("Kind", Raw)>>
Asset == Entity(<<65>>,
  [Owner |-> F("string", "owner"), Id |-> F("string", "id"), Path |-> F("string", "path"),
   Mark |-> F("[1]byte", "mark"), Slot |-> F("uint8", "slot"), Sum |-> F("[]byte", "sum"),
   Kind |-> F("string", "kind"), At |-> F("time.Time", "at"), Ms |-> F("int64", "ms")],
  [main |-> Key(AssetPK, <<Ph("Id", Enc("ulid"))>>),
   gsi1 |-> Key(PathPK, <<Lit(<<72>>), Ph("Mark", Enc("hex"))>>),
   gsi2 |-> Key(SlotPK, <<Lit(<<77>>), Ph("Ms", Enc("epochms"))>>),
   gsi3 |-> Key(TimePK, <<Lit(<<69>>), Ph("At", Enc("epoch")), Lit(<<90>>)>>)],
  [Assets    |-> Pattern("main", AssetPK, "", NoValue),
   AssetsTo  |-> Pattern("main", AssetPK, "lt", Cond(<<Ph("Id", Enc("ulid"))>>)),
   ByPath    |-> Pattern("gsi1", PathPK, "begins", Open(<<Lit(<<72>>)>>)),
   ByPathTo  |-> Pattern("gsi1", PathPK, "lt", Cond(<<Lit(<<72>>), Ph("Mark", Enc("hex"))>>)),
   BySlot    |-> Pattern("gsi2", SlotPK, "between", NoValue),
   ByTime    |-> Pattern("gsi3", TimePK, "", NoValue),
   ByTimeEnd |-> Pattern("gsi3", TimePK, "lt", Cond(<<Lit(<<69>>), Ph("At", Enc("epoch"))>>)),
   ByTimeUp  |-> Pattern("gsi3", TimePK, "lte", Cond(<<Lit(<<69>>), Ph("At", Enc("epoch"))>>))])

AssetRow(id, path, mark, slot, sum, at, ms) ==
  [Owner |-> <<8490>>, Id |-> id, Path |-> path, Mark |-> mark, Slot |-> slot, Sum |-> sum,
   Kind |-> <<75>>, At |-> at, Ms |-> ms]
AssetRows ==
  [Asset |-> {AssetRow(<<48, 48, 48>>, <<35, 32>>, <<0>>, <<0>>, <<255>>, <<0>>, <<0>>),
              AssetRow(<<48, 48, 97>>, <<35, 32>>, <<16>>, <<0>>, <<255>>, <<2>>, <<9>>),
              AssetRow(<<48, 48, 65>>, <<97>>, <<255>>, <<12>>, <<1>>, <<3>>, <<10>>),
              AssetRow(<<55, 90, 90>>, <<233, 8364, 32>>, <<15>>, <<12>>, <<1>>, <<29>>, <<99>>),
              AssetRow(<<56, 48, 48>>, <<97>>, <<0>>, <<0>>, <<>>, <<30>>, <<100>>)}]

------------------------------------------------------------------------------
(* Routes between two texts, which could be cut at either.                 *)

Route == Entity(<<82>>, [From |-> F("string", "from"), To |-> F("string", "to")],
  [main |-> Key(<<Ph("From", Raw), Ph("To", Raw)>>, NoSK)], <<>>)

RouteRows ==
  [Route |-> {[From |-> <<65>>, To |-> <<66>>], [From |-> <<65>>, To |-> <<66, 35, 67>>],
              [From |-> <<65, 35, 66>>, To |-> <<67>>]}]

------------------------------------------------------------------------------
(* Drafts, each with one mistake in it.                                    *)

Item(sk) == Entity(<<73>>,
  [Id |-> F("string", "id"), N |-> F("int64", "n"), Data |-> F("string", "data")],
  [main |-> Key(<<Ph("Id", Raw)>>, sk)], <<>>)
Plain == <<Lit(<<80>>)>>

\* DDB001: {Id} can be what the other entity writes.
Collision == [One |-> Item(NoSK), Two |-> [Item(NoSK) EXCEPT !.type = <<74>>]]
\* DDB001: a table of one entity whose sort key is a literal, and of another
\* whose sort key is a value.
Swallowed == [One |-> Item(Plain), Two |-> [Item(<<Ph("Data", Raw)>>) EXCEPT !.type = <<74>>]]
\* DDB002: a condition that stops inside a value.
Misaligned == [One |-> [Item(<<Ph("Data", Raw), Ph("N", Pad(1))>>) EXCEPT !.patterns =
                 [p |-> Pattern("main", <<Ph("Id", Raw)>>, "lt", Cond(<<Ph("Data", Raw)>>))]]]
\* DDB002: an index that projects keys only is never queried.
KeysOnly == [One |-> [Item(NoSK) EXCEPT
               !.keys = [main |-> Key(<<Ph("Id", Raw)>>, NoSK),
                         gsi1 |-> [Key(<<Ph("Data", Raw)>>, NoSK) EXCEPT !.projection = "keys_only"]],
               !.patterns = [p |-> Pattern("gsi1", <<Ph("Data", Raw)>>, "", NoValue)]]]
\* DDB003: a range over a value of any length.
Unsorted == [One |-> [Item(<<Ph("Data", Raw)>>) EXCEPT !.patterns =
               [p |-> Pattern("main", <<Ph("Id", Raw)>>, "between", NoValue)]]]
\* DDB004: an encoder of strings on a number.
Mistyped == [One |-> [Item(NoSK) EXCEPT !.keys =
               [main |-> Key(<<Ph("Id", Raw)>>, NoSK), gsi1 |-> Key(<<Ph("N", Enc("upper"))>>, NoSK)]]]
\* DDB005: a key that is made of the version.
KeyedVersion == [One |-> [Item(NoSK) EXCEPT
                   !.fields = [Id |-> F("string", "id"), V |-> F("int64", "v")], !.version = "V",
                   !.keys = [main |-> Key(<<Ph("Id", Raw)>>, NoSK), gsi1 |-> Key(<<Ph("V", Pad(1))>>, NoSK)]]]
\* DDB006: two entities that mark their items alike.
Twins == [One |-> Item(Plain), Two |-> Item(<<Lit(<<81>>)>>)]
\* DDB007: a key of a field that does not exist.
Unresolved == [One |-> [Item(NoSK) EXCEPT !.keys =
                 [main |-> Key(<<Ph("Id", Raw)>>, NoSK), gsi1 |-> Key(<<Ph("Gone", Raw)>>, NoSK)]]]
\* DDB008: a field that is stored over a key.
Reserved == [One |-> [Item(Plain) EXCEPT !.fields =
               [Id |-> F("string", "id"), N |-> [type |-> "string", attr |-> SKAttrFor("main")]]]]

ItemRows == {[Id |-> <<65>>, N |-> <<1>>, Data |-> <<80>>]}

KeysDesigns ==
  [shop |-> Shop, log |-> [Log |-> Log], assets |-> [Asset |-> Asset], routes |-> [Route |-> Route],
   collision |-> Collision, swallowed |-> Swallowed, misaligned |-> Misaligned,
   keysOnly |-> KeysOnly, unsorted |-> Unsorted, mistyped |-> Mistyped,
   keyedVersion |-> KeyedVersion, twins |-> Twins, unresolved |-> Unresolved,
   reserved |-> Reserved]

KeysRows ==
  [d \in DOMAIN KeysDesigns |->
     CASE d = "shop" -> ShopRows
       [] d = "log" -> LogRows
       [] d = "assets" -> AssetRows
       [] d = "routes" -> RouteRows
       [] d = "keyedVersion" -> [One |-> {[Id |-> <<65>>, V |-> <<0>>]}]
       [] d = "reserved" -> [One |-> {[Id |-> <<65>>, N |-> <<66>>]}]
       [] OTHER -> [e \in DOMAIN KeysDesigns[d] |-> ItemRows]]

KeysCalls == [d \in DOMAIN KeysDesigns |-> IF d = "shop" THEN 2 ELSE 0]

\* The designs of the run keys are what the theorems about queries assume.
ASSUME KeysAssumption ==
  Designs = KeysDesigns =>
    /\ TextBelowSuffix /\ OneEncoderEach /\ TypeMarksApart
    /\ BoundsFollowLiterals /\ PadsFitInt64 /\ ULIDsAscii

------------------------------------------------------------------------------
(* A bound after another placeholder.                                      *)

DeepSK == <<Lit(<<76>>), Ph("Region", Raw), Ph("N", Pad(1))>>
DeepDesigns ==
  [deep |-> [Log |-> Entity(<<76>>,
     [App |-> F("string", "app"), Region |-> F("string", "region"), N |-> F("int64", "n")],
     [main |-> Key(LogPK, DeepSK)],
     [Below |-> Pattern("main", LogPK, "lt", Cond(DeepSK))])]]
DeepCalls == [deep |-> 0]
DeepRows ==
  [deep |-> [Log |-> {[App |-> <<65>>, Region |-> r, N |-> n] :
                        r \in {<<65>>, <<66>>}, n \in {<<0>>, <<1>>, <<9>>}}]]

\* "predOK false means nothing sorts below the value within the scope"
\* (query.go 63-64): when a bound has no predecessor and the query is
\* therefore empty, no item of the partition in scope sorts below the bound.
NothingBelowWhenEmpty ==
  Idle => \A n \in Entities : \A p \in Patterns(n) : \A args \in Args(n, p) :
    LET e == Table[n] IN
      CanQuery(e, p, args) /\ p.value # NoValue /\ p.cond = "lt"
        /\ StaticCond(e, p, args) = SKEmpty
      => \A it \in Members(n, p, args) :
           LET sk == Join(it.attrs[SKAttrFor(p.index)])
           IN  ~(IsPrefix(Scope(e, p), sk) /\ Less(sk, ValueString(e, p, args, FALSE)))
==============================================================================
