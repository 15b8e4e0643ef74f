SPECIFICATION Spec
CONSTANTS
    Contents <- MCContents
    TopicType <- MCTopicType
    ServiceType <- MCServiceType
    MaxBuilds = 2
    MaxAbsent = 1
    MaxChanges = 3
INVARIANTS
    SchemasComplete
    CacheTransparent
    AdvertisedUpToDate
