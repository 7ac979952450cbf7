SPECIFICATION FairSpec
PROPERTY DirectPathIsRead
