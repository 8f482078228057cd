SPECIFICATION FairSpec
CONSTANTS
    Tabs = {t1, t2}
    NoTab = NoTab
    MaxTrouble = 2
INVARIANTS
    TypeOK
    OneSocket
    TabsCatchUp
PROPERTIES
    TabsReconnect
