------------------------------ MODULE MCCodecs ------------------------------
(* Items at the edges: one and two bytes, odd and even, 15 and 16 bit ports. *)
EXTENDS Codecs

Letter == 65
High == 200

MCSegments ==
  {Port(1, <<0>>), Port(2, <<49, 48>>), Port(14, <<49, 48, 46>>), Port(15, <<3>>), Port(300, <<49, 48, 46>>),
   Logical(ClassID, 6), Logical(ClassID, 300), Logical(InstanceID, 255), Logical(InstanceID, 256),
   Logical(InstanceID, 65536), LogicalIn(InstanceID, 1, 7), Logical(AttributeID, 70000), Logical(MemberID, 65535),
   Logical(ConnectionPoint, 100), Logical(ServiceID, 5), Logical(ServiceID, 300),
   ElectronicKey(1, 300, 65535, 20, 11, 1), ElectronicKey(1, 300, 65535, 200, 11, 0),
   Network(1, 5), Network(2, 255), Single(<<Letter>>), Single(<<Letter, High>>),
   Wide(2, [i \in 1 .. 2 |-> Letter]), Wide(2, [i \in 1 .. 64 |-> Letter]), Wide(3, [i \in 1 .. 3 |-> Letter]),
   Numeric(255), Numeric(256), Numeric(70000),
   Simple(<<>>), Simple(<<1, 2>>), ANSIExtendedSymbol(<<Letter>>), ANSIExtendedSymbol(<<Letter, Letter>>),
   ANSIExtendedSymbol(<<High>>),
   DataTypeSegment([code |-> 195]),
   DataTypeSegment([code |-> AbbrevStruct, crc |-> 4660]),
   DataTypeSegment([code |-> AbbrevArray, itemType |-> [code |-> 195]]),
   DataTypeSegment([code |-> Struct, members |-> <<[code |-> 193], [code |-> AbbrevStruct, crc |-> 1]>>]),
   DataTypeSegment([code |-> Array, itemType |-> [code |-> 196], lower |-> 0, upper |-> 255, lowerTag |-> 1, upperTag |-> 2]),
   DataTypeSegment([code |-> Array, itemType |-> [code |-> 196], lower |-> 0, upper |-> 256, lowerTag |-> 1, upperTag |-> 2])}

Part(name, members) == [name |-> name, members |-> members]
MCSymbols ==
  {<<Part(<<Letter>>, <<>>)>>, <<Part(<<Letter, 66>>, <<1, 300>>), Part(<<67>>, <<2>>)>>,
   <<Part(<<Letter>>, <<65536>>)>>}

Text(n) == [i \in 1 .. n |-> Letter]
MCValues ==
  {<<Type("SINT"), v>> : v \in {-128, -1, 127, 128}} \cup {<<Type("USINT"), v>> : v \in {0, 255, 256}}
    \cup {<<Type("INT"), v>> : v \in {-32768, -2, 32767}} \cup {<<Type("UINT"), v>> : v \in {-1, 65535}}
    \cup {<<Type("DINT"), v>> : v \in {-2147483647, -1, 2147483647}} \cup {<<Type("UDINT"), 65536>>}
    \cup {<<Type("STRING"), Text(300)>>, <<Type("STRING"), <<High>>>>, <<Type("SHORT_STRING"), Text(255)>>,
          <<Type("SHORT_STRING"), Text(256)>>, <<Type("STRING2"), <<Letter, 955>>>>,
          <<EPathOf(TRUE, 6), <<Logical(ClassID, 300), Logical(InstanceID, 1)>>>>,
          <<ArrayOf(Type("INT"), 0, 1), <<5, -5>>>>, <<ArrayOf(Type("INT"), 0, 2), <<5, -5>>>>,
          <<AbbrevArrayOf(Type("UINT"), 2), <<1, 65535>>>>, <<AbbrevArrayOf(Type("UINT"), ToTheEnd), <<1, 2, 3>>>>,
          <<AbbrevArrayOf(Type("UINT"), 0), <<>>>>,
          <<AbbrevArrayOf(Type("STRING"), 2), <<Text(1), Text(2)>>>>, <<AbbrevArrayOf(Type("STRING"), 2), <<Text(1), <<66>>>>>>,
          <<StructOf(<<Type("USINT"), Type("SHORT_STRING"), ArrayOf(Type("SINT"), 0, 1)>>), <<7, Text(2), <<-1, 1>>>>>>,
          <<StructOf(<<Type("USINT"), AbbrevArrayOf(Type("STRING"), 2)>>), <<7, <<Text(2), Text(1)>>>>>>}

MCHeard ==
  {<<Bit(p), v>> : p \in {0, 7, 8}, v \in BOOLEAN}
    \cup {<<Type("STRINGN"), [width |-> w, letters |-> <<Letter, 66>>]>> : w \in {1, 2}}
    \cup {<<Type("STRINGI"), <<<<<<101, 110, 103>>, DataTypeSegment([code |-> 218]), 4, Text(2)>>,
                               <<<<102, 114, 97>>, DataTypeSegment([code |-> 213]), 1000, <<233>>>>>>>>}

MCDatas == {None, <<1>>, <<2, 3>>}
MCServices == {76}
MCPcccFunctions ==
  {WordRangeRead(Address(p, <<78, 55, 58, 48>>), n) : p \in {"N", "ST"}, n \in {1, 122, 123}}
    \cup {TypedRead(Address(p, <<78, 55, 58, 48>>), n) : p \in {"N", "A"}, n \in {0, 1, 65535}}
    \cup {TypedWrite(Address(p, <<70, 56, 58, 48>>), v) :
             p \in {"N", "L", "F", "T"}, v \in {<<>>, <<-2>>, <<32767, -32768>>, <<32768>>}}
    \cup {DiagnosticStatus, Echo(<<>>), Echo(<<9, 8>>)}

TimerOf(flags) == [flags |-> flags, words |-> <<-1, 300>>]
MCPcccElements ==
  {<<Binary, <<255>>>>, <<BitString, <<7, 8>>>>, <<ByteType, <<1, 2, 3>>>>, <<Integer, <<-1, 300>>>>, <<Integer, [i \in 1 .. 130 |-> -i]>>,
   <<Float, <<<<0, 0, 128, 63>>, <<0, 0, 0, 64>>>>>>,
   <<Timer, <<TimerOf(<<TRUE, FALSE, TRUE>>), TimerOf(<<FALSE, TRUE, FALSE>>)>>>>,
   <<Counter, <<TimerOf(<<FALSE, FALSE, TRUE, TRUE, FALSE>>)>>>>,
   <<Control, <<TimerOf(<<TRUE, FALSE, FALSE, TRUE, FALSE, TRUE, FALSE, TRUE>>)>>>>,
   <<30, <<[i \in 1 .. 84 |-> 65]>>>>}

MCHeaders == {<<258, 70000, 65535>>}
MCRoutes == {Port(1, <<0>>), Port(2, <<49, 48>>), Single(<<Letter, Letter>>)}
MCOptions ==
  {[owner |-> w, type |-> 2, priority |-> 1, sizeType |-> z, maximumSize |-> m, direction |-> 1, trigger |-> 2,
    class |-> 3, serial |-> n] :
     w \in {0, 1}, z \in {0, 1}, m \in {500, 511, 512, 4000}, n \in {2, 65535, 65536}}
=============================================================================
