\* The aggregator thread of the receiver.
CONSTANTS
    a = a
    b = b
    c = c
    Ips = {a, b, c}
    Feeds <- MCFeeds
    NoRow = NoRow
SPECIFICATION Spec
PROPERTIES  RequestIsServed ShutdownCompletes
