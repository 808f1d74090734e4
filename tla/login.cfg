SPECIFICATION ClientSpec
CONSTANTS
    Settings <- MCSettings
    Offers <- MCOffers
    MaxConnects = 2
CHECK_DEADLOCK FALSE
INVARIANTS ClientTypeOK TlsRequiredHonoured LayersAgree OnlineMeansReady
PROPERTIES LoginSettles
