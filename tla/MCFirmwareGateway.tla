--------------------------- MODULE MCFirmwareGateway ---------------------------
\* An instance of FirmwareGateway for TLC: a message that fits one SMS and one in
\* two chunks, split after the space that fits; an SMS in two segments.
EXTENDS FirmwareGateway

CONSTANTS short, long, letter, anna, plain

MCBody == [t \in Text |-> IF t = long THEN <<plain, Space, Wide, plain>> ELSE <<plain>>]
MCSize == [s \in Sms |-> 2]
MCDecodable == Segment \ {<<letter, 2>>}
=============================================================================
