\* One upload, deleted by the member or the administrator; fair.
SPECIFICATION FairSpec
CONSTANTS
    u1 = u1
    u2 = u2
    phone = phone
    office = office
    NoURL = NoURL
    Uploads = {u1}
    Devices = {phone, office}
    Uploader <- OneUploader
    Admins = {office}
    MaxFailures = 1
PROPERTIES
    DeleteSticks
